---------------------------- MODULE Spec2Model ----------------------------
(***************************************************************************)
(* Build supervisor of hackday-aegis: the POST handler of /api/build-app   *)
(* (Vite variant, src/unnamed/part_001 lines 8-670) together with          *)
(* AppBuilder.writeFiles (src/unnamed/part_003).                           *)
(*                                                                         *)
(* The handler is an async function; every action below is the code        *)
(* between two awaits on something external (a subprocess exit, the        *)
(* Generator's network round trip, a probe), so that several invocations   *)
(* of the handler interleave exactly at those points.                      *)
(***************************************************************************)
EXTENDS Integers, Naturals, Sequences, FiniteSets, TLC

(***************************************************************************)
(* Bounds of the model (not program constants).                            *)
(***************************************************************************)
\* number of requests accepted over one behaviour
MaxRequests == 2

(***************************************************************************)
(* Program constants.                                                      *)
(***************************************************************************)
MAX_REPAIR_ATTEMPTS == 2
MAX_CONSECUTIVE_500 == 5
MAX_PROBES == 30

\* what a path that does not exist reads as (no text contains the code -1)
NoFile == << -1 >>

(***************************************************************************)
(* Strings.  A text is a sequence of character codes; a captured process   *)
(* output is a sequence of fragments, and output.includes(s) holds when    *)
(* one of its fragments is s.                                              *)
(***************************************************************************)
Includes(output, s) == \E k \in 1..Len(output) : output[k] = s

StartsWith(str, prefix) ==
  /\ Len(str) >= Len(prefix)
  /\ \A k \in 1..Len(prefix) : str[k] = prefix[k]

HasChar(str, c) == \E k \in 1..Len(str) : str[k] = c

TAR_ENTRY_ERROR == "TAR_ENTRY_ERROR"
ENOENT_OPEN == "ENOENT: no such file or directory, open"
SWC_HELPERS == "@swc/helpers"
CANIUSE_AGENTS == "caniuse-lite/dist/unpacker/agents"
MISSING_VITE_SQ == "Cannot find module '@vitejs/plugin-react'"
MISSING_VITE_DQ == "Cannot find module \"@vitejs/plugin-react\""

looksLikeCorruptInstall(output) ==
  \E s \in {TAR_ENTRY_ERROR, ENOENT_OPEN, SWC_HELPERS, CANIUSE_AGENTS} :
     Includes(output, s)

looksLikeMissingVitePluginReact(output) ==
  Includes(output, MISSING_VITE_SQ) \/ Includes(output, MISSING_VITE_DQ)

(***************************************************************************)
(* computeInstallHash: h = (h * 31 + charCode) >>> 0 over                  *)
(* `${pkg}\n---\n${lock}`.  The 32-bit accumulator is kept as the pair     *)
(* <<high 16 bits, low 16 bits>>, which is exact.                          *)
(***************************************************************************)
HashStep(h, c) ==
  LET t == h[2] * 31 + c
  IN  << (h[1] * 31 + (t \div 65536)) % 65536, t % 65536 >>

RECURSIVE HashFrom(_, _, _)
HashFrom(h, data, k) ==
  IF k > Len(data) THEN h ELSE HashFrom(HashStep(h, data[k]), data, k + 1)

\* readFile(...).catch(() => '')
ReadOrEmpty(f) == IF f = NoFile THEN << >> ELSE f

Separator == << 10, 45, 45, 45, 10 >>

computeInstallHash(pkg, lock) ==
  HashFrom(<< 0, 0 >>, ReadOrEmpty(pkg) \o Separator \o ReadOrEmpty(lock), 1)


(***************************************************************************)
(* runNpm: the subprocess ends with a 'close' event carrying an exit code  *)
(* (null when killed by a signal) or with an 'error' event (spawn error).  *)
(***************************************************************************)
NullCode == -1

\* variant of runNpm that takes a missing exit code for 0
runNpmNullAsZero(ev) ==
  IF ev.kind = "close"
  THEN [code |-> IF ev.code = NullCode THEN 0 ELSE ev.code, output |-> ev.output]
  ELSE [code |-> 1, output |-> ev.output \o << "spawn error" >>]

runNpm(ev) ==
  IF ev.kind = "close"
  THEN [code |-> IF ev.code = NullCode THEN 1 ELSE ev.code, output |-> ev.output]
  ELSE [code |-> 1, output |-> ev.output \o << "spawn error" >>]

\* runCompileGate's verdict on the result of runNpm(['run', 'build'])
CompileOk(res) == res.code = 0

ExitCodes == {0, 1, 2, NullCode}

InstallOutputs == { << >>, << "ERESOLVE" >>, << TAR_ENTRY_ERROR >> }

BuildOutputs ==
  { << >>, << "success" >>, << "error TS2304" >>, << SWC_HELPERS >>,
    << MISSING_VITE_SQ >>, << MISSING_VITE_SQ, TAR_ENTRY_ERROR >> }

NpmEvents(outputs) ==
  [kind : {"close"}, code : ExitCodes, output : outputs]
    \cup [kind : {"error"}, code : {NullCode}, output : { << >> }]

(***************************************************************************)
(* The generated project: the dependency manifest, whether tsconfig.json   *)
(* lacks compilerOptions.baseUrl, and the source files.  A file is its     *)
(* directory path below the target directory, its extension and the        *)
(* specifiers of its `from '...'` imports (sequences of characters).       *)
(***************************************************************************)
PkgA == << 123, 125 >>
PkgB == << 123, 49, 125 >>

\* the lockfile npm install writes
NpmLock == << 76 >>

RelSpec   == << ".", "/", "A" >>
AliasSpec == << "@", "/", "a" >>
ReactSpec == << "r", "e", "a", "c", "t" >>
ZodSpec   == << "z", "o", "d" >>
PathSpec  == << "c", "o", "m", "p", "/", "X" >>
NextLink  == << "n", "e", "x", "t", "/", "l" >>
NextBare  == << "n", "e", "x", "t" >>
\* '@vitejs/plugin-react', as vite.config.ts imports it
PluginSpec == << "@", "v", "i", "t", "e", "j", "s", "/", "p" >>

AppTsx(imports)  == [path |-> << "src" >>, ext |-> "tsx", imports |-> imports]
IndexHtml        == [path |-> << >>, ext |-> "html", imports |-> {}]
ViteConfig       == [path |-> << >>, ext |-> "ts", imports |-> {PluginSpec}]
PagesIndex       == [path |-> << "pages" >>, ext |-> "tsx", imports |-> {NextLink}]

ProjectDef ==
  [ good      |-> [pkg |-> PkgA, tsLacksBase |-> FALSE,
                   files |-> {AppTsx({RelSpec, ReactSpec, AliasSpec, ZodSpec}),
                              IndexHtml, ViteConfig}],
    badImport |-> [pkg |-> PkgB, tsLacksBase |-> TRUE,
                   files |-> {AppTsx({ReactSpec, PathSpec}), IndexHtml}],
    nextjs    |-> [pkg |-> PkgA, tsLacksBase |-> FALSE,
                   files |-> {PagesIndex, IndexHtml}],
    empty     |-> [pkg |-> NoFile, tsLacksBase |-> FALSE, files |-> {}] ]

\* what the Generator may return: a project, {files: {}} or no files key
WellFormed == {"good", "badImport", "nextjs"}
GeneratorResults == WellFormed \cup {"emptyfiles", "nofiles"}

NoFinding == [rule |-> "none"]

isBad(spec) ==
  IF StartsWith(spec, << "." >>) \/ StartsWith(spec, << "@", "/" >>) THEN FALSE
  ELSE IF StartsWith(spec, ReactSpec)
          \/ StartsWith(spec, << "t", "a", "i", "l", "w", "i", "n", "d", "c", "s", "s" >>)
       THEN FALSE
       ELSE HasChar(spec, "/")

Under(f, skipped) == \E k \in 1..Len(f.path) : f.path[k] \in skipped

\* variant of the import validator that reports nothing
findForbiddenNonRelativeImportsNever(files) == NoFinding

\* the walk starts at src/ and reports the first file with a bad specifier
findForbiddenNonRelativeImports(files) ==
  LET walked == { f \in files : /\ Len(f.path) > 0
                                /\ f.path[1] = "src"
                                /\ ~Under(f, {"node_modules", ".next"})
                                /\ f.ext \in {"ts", "tsx", "js", "jsx", "mdx"} }
      hits   == { f \in walked : \E s \in f.imports : isBad(s) }
  IN  IF hits = {} THEN NoFinding
  ELSE [rule |-> "import", file |-> CHOOSE f \in hits : TRUE]

DirExists(files, d) == \E f \in files : Len(f.path) > 0 /\ f.path[1] = d

findForbiddenNextJsUsage(files) ==
  LET walked == { f \in files : /\ ~Under(f, {"node_modules", ".next", "dist"})
                                /\ f.ext \in {"ts", "tsx", "js", "jsx", "mdx", "html"} }
      hits   == { f \in walked :
                    \E s \in f.imports :
                       StartsWith(s, NextBare \o << "/" >>) \/ s = NextBare }
  IN  IF DirExists(files, "pages") THEN [rule |-> "pages"]
      ELSE IF DirExists(files, "app") THEN [rule |-> "app"]
      ELSE IF hits = {} THEN NoFinding
      ELSE [rule |-> "next", file |-> CHOOSE f \in hits : TRUE]

(***************************************************************************)
(* State.                                                                  *)
(*   Target directory (shared by all invocations):                         *)
(*     appDir       generated-app exists                                   *)
(*     lockFile     generated-app/.build.lock exists                       *)
(*     nodeModules  generated-app/node_modules exists                      *)
(*     pkgLock      content of package-lock.json, or NoFile                *)
(*     installHash  content of .install.hash, or NoFile                    *)
(*     dist         build output (dist, .next) exists                      *)
(*     tree         the project the source files come from                 *)
(*     tsPatched    tsconfig.json was given a baseUrl by the supervisor    *)
(*   Process:                                                              *)
(*     apiKey       process.env.OPENAI_API_KEY is set                      *)
(*     handlers     the handler slots that accept requests                 *)
(*     quota        requests still accepted in this behaviour              *)
(*     probeLimit   the number of iterations of the probe loop: MAX_PROBES *)
(*                  where the prober is examined, a smaller bound where    *)
(*                  only the stages before it are                          *)
(*     inv          per invocation: the locals of POST and its position,   *)
(*                  and the state of the dev server it spawned (server:    *)
(*                  none, running, exited, failed to spawn, killed)        *)
(*     genQuota     generate-app requests still accepted                   *)
(*     platform     process.platform                                       *)
(*     gen          the generate-app handler: its position and the project *)
(*                  the Generator returned                                 *)
(*     cli          the CLI runner process (src/runner.ts): its position,  *)
(*                  the generator calls it made, its dev-server children   *)
(*     ui           the upload page (src/web-ui/app/page.tsx): its status  *)
(*                  and the runs of handleImageUpload in progress          *)
(*     procs        the other processes of the machine: the port each      *)
(*                  listens on, the port each is connected to, and whether *)
(*                  it is still alive                                      *)
(*   Observers (not program state):                                        *)
(*     observe      the observer fields of inv and prevCall are recorded   *)
(*     inv[i].dirAtOpen  whether the target directory existed when the     *)
(*                  open of the marker failed                              *)
(*     inv[i].reclaim  how the port cleanup of the invocation went, kept   *)
(*                  until the launch                                       *)
(*     inv[i].exitedEarly  the dev server exited before serverReady was    *)
(*                  set                                                    *)
(*     inv[i].sent  the number of health probes sent so far, counted up    *)
(*                  to probeLimit + 1                                      *)
(*     inv[i].corruptAt  the attempt index at which the compile failure    *)
(*                  being handled took the corrupt-install branch          *)
(*     prevCall     manifest and lockfile at the start of the most recent  *)
(*                  runNpmInstallWithFallback call, and whether it         *)
(*                  returned normally, and whether the fingerprint file it *)
(*                  left has been kept since                               *)
(***************************************************************************)
VARIABLES appDir, lockFile, nodeModules, pkgLock, installHash, dist, tree,
          tsPatched, apiKey, handlers, quota, probeLimit, observe, inv, prevCall,
          genQuota, platform, gen, procs, cli, ui

fsVars == << appDir, lockFile, nodeModules, pkgLock, installHash, dist, tree,
             tsPatched >>
envVars == << apiKey, handlers, quota, probeLimit, observe, genQuota, platform >>
sideVars == << gen, procs, cli, ui >>
vars == << appDir, lockFile, nodeModules, pkgLock, installHash, dist, tree,
           tsPatched, apiKey, handlers, quota, probeLimit, observe, inv, prevCall,
           genQuota, platform, gen, procs, cli, ui >>

Slots == {1, 2}

\* the probe observer is switched off
Off == << -2 >>
NullStatus == -1

\* no attempt index (the observer of the corrupt-install branch is unset)
NoIndex == -1

\* the locals of a fresh invocation
Fresh(p, probes) ==
  [ pc |-> "start",
    prompt |-> p,
    lockFd |-> FALSE,
    attempt |-> 0,
    ret |-> "initial",
    enforce |-> FALSE,
    desiredHash |-> << >>,
    hasLock |-> FALSE,
    firstOut |-> << >>,
    repaired |-> "none",
    i |-> 0,
    consecutive500Errors |-> 0,
    serverReady |-> FALSE,
    result |-> "none",
    errOutput |-> << >>,
    server |-> "none",
    cleared |-> FALSE,
    \* observers
    genCalls |-> 0,
    npmLog |-> << >>,
    idemPre |-> FALSE,
    idemKept |-> FALSE,
    buildRes |-> [ok |-> FALSE, output |-> << >>],
    buildEv |-> [kind |-> "none", code |-> NullCode, output |-> << >>],
    lastBuild |-> "none",
    launched |-> FALSE,
    probeOk |-> FALSE,
    streamSeen |-> FALSE,
    failSeen |-> "none",
    markerAtOpen |-> FALSE,
    dirAtOpen |-> TRUE,
    iters |-> 0,
    corruptAt |-> NoIndex,
    sent |-> 0,
    exitedEarly |-> FALSE,
    reclaim |-> "none",
    window |-> IF probes THEN << >> ELSE Off ]

Idle == [Fresh(FALSE, FALSE) EXCEPT !.pc = "idle"]

\* the manifest as readFile sees it
Manifest == IF appDir THEN ProjectDef[tree].pkg ELSE NoFile

\* tsconfig.json exists, parses and has no compilerOptions.baseUrl
TsLacksBaseUrl == appDir /\ ProjectDef[tree].tsLacksBase /\ ~tsPatched

InitFs ==
  /\ appDir \in BOOLEAN
  /\ lockFile = FALSE
  /\ nodeModules = FALSE
  /\ pkgLock = NoFile
  /\ installHash = NoFile
  /\ dist = FALSE
  /\ tree \in (IF appDir THEN WellFormed ELSE {"empty"})
  /\ tsPatched = FALSE
  /\ prevCall = [ok |-> FALSE, pkg |-> NoFile, lock |-> NoFile, kept |-> FALSE]

\* variant in which a thrown fault bypasses the finally block
ExitPcFaultSkipsFinally(r) == IF r = "fatal" THEN "done" ELSE "finally"

\* every return and every throw inside the try block leaves through finally
ExitPc(r) == "finally"

Return(rec, r) == [rec EXCEPT !.result = r, !.pc = ExitPc(r)]

\* The NextResponse.json of each return site: its HTTP status and whether
\* its body has a `suggestion` key.
Response(r) ==
  CASE r = "busy"             -> [status |-> 409, suggestion |-> FALSE]
    [] r = "notfound"         -> [status |-> 404, suggestion |-> FALSE]
    [] r = "import_terminal"  -> [status |-> 500, suggestion |-> TRUE]
    [] r = "import_norepair"  -> [status |-> 500, suggestion |-> FALSE]
    [] r = "nextjs_terminal"  -> [status |-> 500, suggestion |-> TRUE]
    [] r = "nextjs_norepair"  -> [status |-> 500, suggestion |-> TRUE]
    [] r = "vite_terminal"    -> [status |-> 500, suggestion |-> TRUE]
    [] r = "vite_norepair"    -> [status |-> 500, suggestion |-> FALSE]
    [] r = "compile_terminal" -> [status |-> 500, suggestion |-> TRUE]
    [] r = "compile_norepair" -> [status |-> 500, suggestion |-> FALSE]
    [] r = "runtime500"       -> [status |-> 500, suggestion |-> TRUE]
    [] r = "timeout"          -> [status |-> 500, suggestion |-> FALSE]
    [] r = "fatal"            -> [status |-> 500, suggestion |-> FALSE]
    [] r = "success"          -> [status |-> 200, suggestion |-> FALSE]

\* The record without what the observers noted and without the captured
\* output kept for the error text; once the handler has left the try block
\* only the kind of its response is kept (busy, not found, success, failure).
Blind(rec) ==
  IF rec.pc \in {"finally", "done"}
  THEN [Idle EXCEPT !.pc = rec.pc, !.lockFd = rec.lockFd,
                    !.result = IF rec.result \in {"busy", "notfound", "success"}
                               THEN rec.result ELSE "failure"]
  ELSE [rec EXCEPT !.genCalls = 0, !.npmLog = << >>, !.idemPre = FALSE,
                   !.idemKept = FALSE, !.firstOut = << >>,
                   !.buildRes = [ok |-> FALSE, output |-> << >>],
                   !.buildEv = [kind |-> "none", code |-> NullCode, output |-> << >>],
                   !.lastBuild = "none", !.launched = FALSE, !.probeOk = FALSE,
                   !.streamSeen = FALSE, !.failSeen = "none",
                   !.markerAtOpen = FALSE, !.dirAtOpen = TRUE, !.iters = 0,
                   !.corruptAt = NoIndex, !.sent = 0,
                   !.exitedEarly = FALSE, !.reclaim = "none"]

Set(i, rec) == inv' = [inv EXCEPT ![i] = IF observe THEN rec ELSE Blind(rec)]

SetPrev(p) == prevCall' = IF observe THEN p ELSE prevCall

(***************************************************************************)
(* A request arrives at a free handler slot.                               *)
(***************************************************************************)
NewRequest(i) ==
  /\ inv[i].pc \in {"idle", "done"}
  /\ quota > 0
  /\ quota' = quota - 1
  /\ \E p \in BOOLEAN : Set(i, Fresh(p, inv[i].window # Off))
  /\ UNCHANGED << fsVars, apiKey, handlers, probeLimit, observe, genQuota,
                  platform, sideVars, prevCall >>

(***************************************************************************)
(* Lock acquisition: fs.promises.open(lockPath, 'wx') fails when the       *)
(* marker exists and when the directory does not; any failure is answered  *)
(* with the 409 result.                                                    *)
(***************************************************************************)
\* variant of the open that does not fail on an existing marker
OpenWxIgnoringMarker == appDir

OpenWx == appDir /\ ~lockFile

Acquire(i) ==
  /\ inv[i].pc = "start"
  /\ IF OpenWx
     THEN /\ lockFile' = TRUE
          /\ Set(i, [inv[i] EXCEPT !.lockFd = TRUE, !.pc = "checkdir"])
     ELSE /\ lockFile' = lockFile
          /\ Set(i, Return([inv[i] EXCEPT !.markerAtOpen = lockFile,
                                          !.dirAtOpen = appDir], "busy"))
  /\ UNCHANGED << appDir, nodeModules, pkgLock, installHash, dist, tree,
                  tsPatched, envVars, sideVars, prevCall >>

\* enforceTsconfigBaseUrl: patch tsconfig.json and drop the fingerprint
EnforceHash == IF TsLacksBaseUrl THEN NoFile ELSE installHash
EnforcePatched == IF TsLacksBaseUrl THEN TRUE ELSE tsPatched

CheckDir(i) ==
  /\ inv[i].pc = "checkdir"
  /\ IF ~appDir
     THEN /\ Set(i, Return(inv[i], "notfound"))
          /\ UNCHANGED << installHash, tsPatched >>
          /\ UNCHANGED prevCall
     ELSE /\ installHash' = EnforceHash
          /\ tsPatched' = EnforcePatched
          /\ SetPrev([prevCall EXCEPT !.kept = @ /\ ~TsLacksBaseUrl])
          /\ Set(i, [inv[i] EXCEPT !.pc = "install", !.ret = "initial"])
  /\ UNCHANGED << appDir, lockFile, nodeModules, pkgLock, dist, tree, envVars, sideVars >>

(***************************************************************************)
(* runNpmInstallWithFallback (the Dependency Installer).                   *)
(***************************************************************************)
\* the loop test `attempt <= MAX_REPAIR_ATTEMPTS`
LoopContinues(a) == a <= MAX_REPAIR_ATTEMPTS

\* variant in which the loop restarts at index 0 after an installer call
NextAttemptRestart(a) == 0

\* `attempt++` of the repair loop
NextAttempt(a) == a + 1

\* variant in which the first installer call is followed by the compile run
AfterInstallSkippingValidation(rec) ==
  LET out == [rec EXCEPT !.desiredHash = << >>, !.hasLock = FALSE,
                         !.firstOut = << >>, !.enforce = FALSE]
  IN  IF rec.ret = "initial"
      THEN [out EXCEPT !.pc = "build"]
      ELSE [out EXCEPT !.attempt = rec.attempt + 1,
                       !.pc = IF rec.attempt + 1 <= MAX_REPAIR_ATTEMPTS
                              THEN "validate" ELSE "reclaim"]

\* Where the caller goes when the installer returns: the first call is
\* followed by the repair loop at attempt 0; every call inside the loop is
\* followed by `continue` or by the end of the loop body, hence attempt++
\* and the loop test.
AfterInstall(rec) ==
  LET out == [rec EXCEPT !.desiredHash = << >>, !.hasLock = FALSE,
                         !.firstOut = << >>, !.enforce = FALSE]
  IN  IF rec.ret = "initial"
      THEN [out EXCEPT !.pc = "validate"]
      ELSE [out EXCEPT !.attempt = NextAttempt(rec.attempt),
                       !.pc = IF LoopContinues(NextAttempt(rec.attempt))
                              THEN "validate" ELSE "reclaim"]

\* variant of the skip test that looks at node_modules only
SkipInstallModulesOnly(lastHash, desiredHash, hasModules) == hasModules

\* lastHash.trim() === desiredHash && fs.existsSync(node_modules)
SkipInstall(lastHash, desiredHash, hasModules) ==
  ReadOrEmpty(lastHash) = desiredHash /\ hasModules

\* variant in which the fingerprint is never written
PersistHashDropped(h) == NoFile

\* fs.promises.writeFile(lastHashPath, desiredHash)
PersistHash(h) == h

InstallStart(i) ==
  /\ inv[i].pc = "install"
  /\ LET desired == computeInstallHash(Manifest, pkgLock)
         pre     == /\ prevCall.ok
                    /\ prevCall.pkg = Manifest
                    /\ prevCall.lock = pkgLock
                    /\ nodeModules
         rec     == [inv[i] EXCEPT !.desiredHash = desired, !.npmLog = << >>,
                                   !.idemPre = pre,
                                   !.idemKept = (pre /\ prevCall.kept)]
     IN  IF SkipInstall(installHash, desired, nodeModules)
         THEN /\ Set(i, AfterInstall(rec))
              /\ SetPrev([ok |-> TRUE, pkg |-> Manifest, lock |-> pkgLock,
                          kept |-> TRUE])
         ELSE /\ Set(i, [rec EXCEPT !.hasLock = (pkgLock # NoFile),
                                    !.pc = "npm_first"])
              /\ SetPrev([ok |-> FALSE, pkg |-> Manifest, lock |-> pkgLock,
                          kept |-> FALSE])
  /\ UNCHANGED << fsVars, envVars, sideVars >>

InstallCmd(rec) == IF rec.hasLock THEN "ci" ELSE "install"

\* the observer's log of the install subprocesses of the current call
Logged(rec, cmd, res) ==
  [rec EXCEPT !.npmLog = Append(@, [cmd |-> cmd, code |-> res.code,
                                    output |-> res.output])]

\* What the environment lets an install subprocess do: without the target
\* directory the spawn fails, and `npm ci` cannot succeed without a lockfile.
InstallEvents(cmd) ==
  { ev \in NpmEvents(InstallOutputs) :
      /\ ~appDir => ev.kind = "error"
      /\ (cmd = "ci" /\ pkgLock = NoFile) => ~(ev.kind = "close" /\ ev.code = 0) }

\* a successful install fills node_modules; `npm install` may write a lockfile
InstallSucceeds(i, rec, cmd) ==
  /\ nodeModules' = TRUE
  /\ pkgLock' \in (IF cmd # "ci" /\ pkgLock = NoFile
                   THEN {NoFile, NpmLock} ELSE {pkgLock})
  /\ installHash' = PersistHash(rec.desiredHash)
  /\ SetPrev([prevCall EXCEPT !.ok = TRUE, !.kept = TRUE])
  /\ Set(i, AfterInstall(rec))
  /\ UNCHANGED << appDir, lockFile, dist, tree, tsPatched, envVars, sideVars >>

\* variant in which a failed install lets the caller go on
InstallThrowsSwallowed(i, rec, out) == Set(i, AfterInstall(rec))

\* the installer throws: the catch block of POST answers with the message
InstallThrows(i, rec, out) ==
  Set(i, Return([rec EXCEPT !.errOutput = out, !.desiredHash = << >>,
                            !.hasLock = FALSE, !.firstOut = << >>], "fatal"))

\* variant of the cleaning that leaves node_modules in place
CleanKeepingModules ==
  /\ dist' = FALSE
  /\ nodeModules' = nodeModules
  /\ pkgLock' = NoFile
  /\ installHash' = NoFile

\* cleanGeneratedAppBuildState
Clean ==
  /\ dist' = FALSE
  /\ nodeModules' = FALSE
  /\ pkgLock' = NoFile
  /\ installHash' = NoFile

\* variant in which the relaxed retry is tried with a lockfile too
FallbackAllowedAlways(hasLock) == TRUE

\* `if (!hasLock)`: the --legacy-peer-deps retry is for npm install only
FallbackAllowed(hasLock) == ~hasLock

NpmFirstExit(i) ==
  /\ inv[i].pc = "npm_first"
  /\ \E ev \in InstallEvents(InstallCmd(inv[i])) :
       LET first == runNpm(ev)
           rec   == Logged(inv[i], InstallCmd(inv[i]), first)
       IN  IF first.code = 0
           THEN InstallSucceeds(i, rec, InstallCmd(inv[i]))
           ELSE IF looksLikeCorruptInstall(first.output)
           THEN /\ Clean
                /\ Set(i, [rec EXCEPT !.pc = "npm_retry",
                                      !.firstOut = first.output])
                /\ UNCHANGED << appDir, lockFile, tree, tsPatched, envVars, sideVars,
                                prevCall >>
           ELSE IF FallbackAllowed(inv[i].hasLock)
           THEN /\ Set(i, [rec EXCEPT !.pc = "npm_legacy",
                                      !.firstOut = first.output])
                /\ UNCHANGED << fsVars, envVars, sideVars, prevCall >>
           ELSE /\ InstallThrows(i, rec, first.output)
                /\ UNCHANGED << fsVars, envVars, sideVars, prevCall >>

\* the retry after cleaning runs the same installCmd
NpmRetryExit(i) ==
  /\ inv[i].pc = "npm_retry"
  /\ \E ev \in InstallEvents(InstallCmd(inv[i])) :
       LET retry == runNpm(ev)
           rec   == Logged(inv[i], InstallCmd(inv[i]), retry)
       IN  IF retry.code = 0
           THEN InstallSucceeds(i, rec, InstallCmd(inv[i]))
           ELSE /\ InstallThrows(i, rec, retry.output)
                /\ UNCHANGED << fsVars, envVars, sideVars, prevCall >>

\* `second.output || first.output`
OrElse(a, b) == IF a = << >> THEN b ELSE a

\* npm install --legacy-peer-deps
NpmLegacyExit(i) ==
  /\ inv[i].pc = "npm_legacy"
  /\ \E ev \in InstallEvents("install --legacy-peer-deps") :
       LET second == runNpm(ev)
           rec    == Logged(inv[i], "install --legacy-peer-deps", second)
       IN  IF second.code = 0
           THEN InstallSucceeds(i, rec, "install --legacy-peer-deps")
           ELSE /\ InstallThrows(i, rec, OrElse(second.output, inv[i].firstOut))
                /\ IF looksLikeCorruptInstall(second.output)
                   THEN Clean
                   ELSE UNCHANGED << dist, nodeModules, pkgLock, installHash >>
                /\ UNCHANGED << appDir, lockFile, tree, tsPatched, envVars, sideVars,
                                prevCall >>

(***************************************************************************)
(* The repair loop: validators, compile gate, maybeAutoRepair.             *)
(***************************************************************************)
\* variant of maybeAutoRepair without the credentials check
CanRepairPromptOnly(prompt, key) == prompt

\* maybeAutoRepair's two early returns
CanRepair(prompt, key) == prompt /\ key

\* variant in which the terminal index is one past the loop bound
AtMaxOnePast(a) == a = MAX_REPAIR_ATTEMPTS + 1

\* `attempt === MAX_REPAIR_ATTEMPTS`
AtMax(a) == a = MAX_REPAIR_ATTEMPTS

\* variant without the terminal return at the last index
RepairOrFailNeverTerminal(rec, terminal, norepair, enforce) ==
  LET seen == [rec EXCEPT !.failSeen = "hard"]
  IN  IF CanRepair(rec.prompt, apiKey)
      THEN [seen EXCEPT !.pc = "generating", !.genCalls = @ + 1,
                        !.enforce = enforce]
      ELSE Return(seen, norepair)

\* A validator finding or a compile failure outside the corrupt-install
\* branch: terminal at the last index, otherwise maybeAutoRepair, which either
\* calls the Generator or returns false.
RepairOrFail(rec, terminal, norepair, enforce) ==
  LET seen == [rec EXCEPT !.failSeen = "hard"]
  IN  IF AtMax(rec.attempt) THEN Return(seen, terminal)
      ELSE IF CanRepair(rec.prompt, apiKey)
      THEN [seen EXCEPT !.pc = "generating", !.genCalls = @ + 1,
                        !.enforce = enforce]
      ELSE Return(seen, norepair)

Files == IF appDir THEN ProjectDef[tree].files ELSE {}

\* what the observers noted of the installer call and of the compile run
\* that have just ended is dropped at the next step
Forget(rec) ==
  [rec EXCEPT !.npmLog = << >>, !.idemPre = FALSE, !.idemKept = FALSE,
              !.buildRes = [ok |-> FALSE, output |-> << >>],
              !.buildEv = [kind |-> "none", code |-> NullCode, output |-> << >>],
              !.corruptAt = NoIndex]

Validate(i) ==
  /\ inv[i].pc = "validate"
  /\ LET badImport == findForbiddenNonRelativeImports(Files)
         forbidden == findForbiddenNextJsUsage(Files)
         rec       == [Forget(inv[i]) EXCEPT !.iters = @ + 1]
     IN  IF badImport # NoFinding
         THEN Set(i, RepairOrFail(rec, "import_terminal", "import_norepair", TRUE))
         ELSE IF forbidden # NoFinding
         THEN Set(i, RepairOrFail(rec, "nextjs_terminal", "nextjs_norepair", FALSE))
         ELSE Set(i, [rec EXCEPT !.pc = "build"])
  /\ UNCHANGED << fsVars, envVars, sideVars, prevCall >>

BuildEvents == { ev \in NpmEvents(BuildOutputs) : ~appDir => ev.kind = "error" }

\* runCompileGate, first await: rm of dist (recursive, force)
ClearBuildOutput(i) ==
  /\ inv[i].pc = "build"
  /\ ~inv[i].cleared
  /\ dist' = FALSE
  /\ Set(i, [inv[i] EXCEPT !.cleared = TRUE])
  /\ UNCHANGED << appDir, lockFile, nodeModules, pkgLock, installHash, tree,
                  tsPatched, envVars, sideVars, prevCall >>

\* runCompileGate, second await (run the build, ok iff the code is 0) and the
\* handling of its result in the loop body, which follows without an await
RunCompileGate(i) ==
  /\ inv[i].pc = "build"
  /\ inv[i].cleared
  /\ \E ev \in BuildEvents :
       LET res      == runNpm(ev)
           buildRes == [ok |-> CompileOk(res), output |-> res.output]
           rec      == [inv[i] EXCEPT !.buildRes = buildRes,
                                      !.buildEv = ev,
                                      !.cleared = FALSE,
                                      !.lastBuild = IF buildRes.ok THEN "ok" ELSE "fail"]
       IN  IF buildRes.ok
           THEN /\ Set(i, [rec EXCEPT !.pc = "reclaim"])
                /\ dist' = TRUE
                /\ UNCHANGED << nodeModules, pkgLock, installHash, prevCall >>
           ELSE IF looksLikeMissingVitePluginReact(buildRes.output)
           THEN /\ Set(i, RepairOrFail(rec, "vite_terminal", "vite_norepair", FALSE))
                /\ dist' = dist
                /\ UNCHANGED << nodeModules, pkgLock, installHash, prevCall >>
           ELSE IF looksLikeCorruptInstall(buildRes.output)
           THEN /\ Clean
                /\ Set(i, [rec EXCEPT !.pc = "install", !.ret = "loop",
                                      !.failSeen = IF @ = "none" THEN "corrupt" ELSE @,
                                      !.corruptAt = rec.attempt])
                /\ SetPrev([prevCall EXCEPT !.kept = FALSE])
           ELSE /\ Set(i, RepairOrFail(rec, "compile_terminal", "compile_norepair", FALSE))
                /\ dist' = dist
                /\ UNCHANGED << nodeModules, pkgLock, installHash, prevCall >>
  /\ UNCHANGED << appDir, lockFile, tree, tsPatched, envVars, sideVars >>

(***************************************************************************)
(* maybeAutoRepair: builder.generateApp, then builder.writeFiles.          *)
(***************************************************************************)
\* generateApp returns the parsed response or throws
Generator(i) ==
  /\ inv[i].pc = "generating"
  /\ \/ Set(i, Return(inv[i], "fatal"))
     \/ \E g \in GeneratorResults :
          Set(i, [inv[i] EXCEPT !.repaired = g, !.pc = "write_rm"])
  /\ UNCHANGED << fsVars, envVars, sideVars, prevCall >>

\* writeFiles, first half: rm -rf of the whole target directory
WriteFilesRm(i) ==
  /\ inv[i].pc = "write_rm"
  /\ appDir' = FALSE
  /\ lockFile' = FALSE
  /\ nodeModules' = FALSE
  /\ pkgLock' = NoFile
  /\ installHash' = NoFile
  /\ dist' = FALSE
  /\ tree' = "empty"
  /\ tsPatched' = FALSE
  /\ Set(i, [inv[i] EXCEPT !.pc = "write_mk"])
  /\ SetPrev([prevCall EXCEPT !.kept = FALSE])
  /\ UNCHANGED << envVars, sideVars >>

\* writeFiles, second half: mkdir and Object.entries(files); on return
\* maybeAutoRepair yields true and the caller re-runs the installer (after
\* enforceTsconfigBaseUrl on the import-repair path).
WriteFilesWrite(i) ==
  /\ inv[i].pc = "write_mk"
  /\ appDir' = TRUE
  /\ LET g       == inv[i].repaired
         written == g \in WellFormed
         newTree == IF written THEN g ELSE tree
         lacks   == ProjectDef[newTree].tsLacksBase /\ ~(tsPatched /\ ~written)
         patch   == g # "nofiles" /\ inv[i].enforce /\ lacks
     IN  /\ tree' = newTree
         /\ tsPatched' = IF patch THEN TRUE ELSE (tsPatched /\ ~written)
         /\ installHash' = IF patch THEN NoFile ELSE installHash
         /\ SetPrev([prevCall EXCEPT !.kept = @ /\ ~patch])
         /\ IF g = "nofiles"
            THEN Set(i, Return([inv[i] EXCEPT !.repaired = "none"], "fatal"))
            ELSE Set(i, [inv[i] EXCEPT !.repaired = "none", !.pc = "install",
                                       !.ret = "loop"])
  /\ UNCHANGED << lockFile, nodeModules, pkgLock, dist, envVars, sideVars >>

(***************************************************************************)
(* Port reclaim, launch, health probing.                                   *)
(***************************************************************************)
\* the application port named in the reclaim commands, and the port the
\* supervisor's own web UI listens on
APP_PORT == 3000
UI_PORT == 3001
NoPort == 0

Platforms == {"darwin", "win32", "linux"}

\* a process: the port it listens on and the remote port of a connection it
\* holds (NoPort for none)
ProcKinds ==
  [listen : {APP_PORT, UI_PORT, NoPort}, peer : {APP_PORT, NoPort},
   alive : {TRUE}]

\* `lsof -ti:3000`: the processes with an Internet socket whose local or
\* remote port is 3000
LsofPort(ps, port) ==
  { p \in DOMAIN ps : ps[p].alive /\ (ps[p].listen = port \/ ps[p].peer = port) }

\* `fuser -k 3000/tcp`: the processes using local TCP port 3000
FuserPort(ps, port) ==
  { p \in DOMAIN ps : ps[p].alive /\ ps[p].listen = port }

\* the processes the port cleanup terminates on each platform; on win32 the
\* code only lists (`netstat -ano | findstr :3000`) and terminates nothing
Killed(plat, ps) ==
  IF plat = "darwin" THEN LsofPort(ps, APP_PORT)
  ELSE IF plat = "win32" THEN {}
  ELSE FuserPort(ps, APP_PORT)

\* how the cleanup commands end: they complete; the lookup command (or the
\* import of child_process) rejects; the kill finds its target but fails
ReclaimOutcomes == {"completed", "lookupFailed", "killFailed"}

\* variant in which a rejected cleanup command fails the invocation
AfterReclaimFailsOnError(rec, o) ==
  IF o = "completed"
  THEN [rec EXCEPT !.pc = "launch", !.reclaim = o]
  ELSE Return([rec EXCEPT !.reclaim = o], "fatal")

\* every rejection is caught and logged by one of the three catch blocks of
\* the cleanup; the handler goes on to the spawn
AfterReclaim(rec, o) == [rec EXCEPT !.pc = "launch", !.reclaim = o]

Reclaim(i) ==
  /\ inv[i].pc = "reclaim"
  /\ \E o \in ReclaimOutcomes :
       /\ o = "killFailed" => Killed(platform, procs) # {}
       /\ Set(i, AfterReclaim([Forget(inv[i]) EXCEPT !.attempt = 0,
                                                     !.iters = 0], o))
       /\ procs' = [p \in DOMAIN procs |->
                      IF o = "completed" /\ p \in Killed(platform, procs)
                      THEN [procs[p] EXCEPT !.alive = FALSE] ELSE procs[p]]
  /\ UNCHANGED << fsVars, envVars, gen, cli, ui, prevCall >>

Launch(i) ==
  /\ inv[i].pc = "launch"
  /\ Set(i, [inv[i] EXCEPT !.pc = "probing", !.launched = TRUE, !.i = 0,
                           !.consecutive500Errors = 0, !.serverReady = FALSE,
                           !.server = "running", !.reclaim = "none"])
  /\ UNCHANGED << fsVars, envVars, sideVars, prevCall >>

\* a chunk of the dev server's stdout or stderr carries a ready marker
StreamReady(i) ==
  /\ inv[i].pc = "probing"
  /\ ~inv[i].serverReady
  /\ Set(i, [inv[i] EXCEPT !.serverReady = TRUE, !.streamSeen = TRUE])
  /\ UNCHANGED << fsVars, envVars, sideVars, prevCall >>

ProbeOutcomes ==
  [kind : {"response"}, statusCode : {100, 200, 499, 500, 503}]
    \cup [kind : {"error", "timeout"}, statusCode : {NullStatus}]

\* variant in which every response marks the server ready
ProbeReadyAnyResponse(o) == o.kind = "response"

\* resolve({ ready: statusCode >= 200 && statusCode < 500, statusCode })
ProbeReady(o) == o.kind = "response" /\ o.statusCode >= 200 /\ o.statusCode < 500

\* variant in which a probe without a response leaves the counter alone
NextConsecutiveKeptOnError(c, status) ==
  IF status = 500 THEN c + 1 ELSE IF status = NullStatus THEN c ELSE 0

\* the consecutive-500 counter after a probe with this status
NextConsecutive(c, status) == IF status = 500 THEN c + 1 ELSE 0

\* variant in which the end of the probe loop always reports success
FinalResultAlwaysSuccess(ready) == "success"

\* the decision after the probe loop: `if (!serverReady)`
FinalResult(ready) == IF ready THEN "success" ELSE "timeout"

\* the observer's view of the most recent probes
Observe(w, status) ==
  IF w = Off THEN Off
  ELSE LET a == Append(w, status)
       IN  IF Len(a) > MAX_CONSECUTIVE_500 THEN Tail(a) ELSE a

\* variant in which the probe index does not advance
NextIStuck(k) == k

\* `i++` of the probe loop
NextI(k) == k + 1

\* variant in which the loop runs once more
ProbeLoopContinuesOneMore(k) == k <= probeLimit

\* the loop test `i < 30`
ProbeLoopContinues(k) == k < probeLimit

\* variant in which a failure return after launch kills the dev server
ServerOnReturnKilledOnFailure(srv, r) ==
  IF r # "success" /\ srv = "running" THEN "killed" ELSE srv

\* the returns after launch (RuntimeFailure, Timeout, success) do nothing to
\* the spawned process, which is detached and unref'd
ServerOnReturn(srv, r) == srv

ReturnAfterLaunch(rec, r) ==
  Return([rec EXCEPT !.server = ServerOnReturn(@, r)], r)

Probe(i) ==
  /\ inv[i].pc = "probing"
  /\ ProbeLoopContinues(inv[i].i)
  /\ \E o \in ProbeOutcomes :
       LET c   == NextConsecutive(inv[i].consecutive500Errors, o.statusCode)
           rec == [inv[i] EXCEPT !.consecutive500Errors = c,
                                 !.window = Observe(@, o.statusCode),
                                 !.sent = IF @ <= probeLimit THEN @ + 1 ELSE @]
       IN  IF o.statusCode = 500 /\ c >= MAX_CONSECUTIVE_500
           THEN Set(i, ReturnAfterLaunch(rec, "runtime500"))
           ELSE IF ProbeReady(o)
           THEN Set(i, ReturnAfterLaunch([rec EXCEPT !.serverReady = TRUE,
                                                     !.probeOk = TRUE],
                                         FinalResult(TRUE)))
           ELSE IF ProbeLoopContinues(NextI(inv[i].i))
           THEN Set(i, [rec EXCEPT !.i = NextI(@)])
           ELSE Set(i, ReturnAfterLaunch([rec EXCEPT !.i = NextI(@)],
                                         FinalResult(rec.serverReady)))
  /\ UNCHANGED << fsVars, envVars, sideVars, prevCall >>

\* variant in which the exit of the dev server fails the invocation
OnExitFails(rec) == Return(rec, "fatal")

\* proc.on('exit'): the exit is logged, nothing else
OnExit(rec) == rec

\* the dev server exits while the invocation is probing; its stdio may
\* still deliver output afterwards
ServerExit(i) ==
  /\ inv[i].pc = "probing"
  /\ inv[i].server = "running"
  /\ Set(i, OnExit([inv[i] EXCEPT !.server = "exited",
                                  !.exitedEarly = ~inv[i].serverReady]))
  /\ UNCHANGED << fsVars, envVars, sideVars, prevCall >>

\* proc.on('error'): the spawn failed; the handler throws inside the event
\* callback, outside the try block of POST, so either the uncaught exception
\* ends the supervisor process (no response, no finally) or the runtime
\* survives it and the invocation goes on probing
ServerError(i) ==
  /\ inv[i].pc = "probing"
  /\ inv[i].server = "running"
  /\ inv[i].sent = 0
  /\ ~inv[i].serverReady
  /\ \/ Set(i, [inv[i] EXCEPT !.server = "failed", !.pc = "crashed"])
     \/ Set(i, [inv[i] EXCEPT !.server = "failed"])
  /\ UNCHANGED << fsVars, envVars, sideVars, prevCall >>

(***************************************************************************)
(* finally: fs.promises.rm(lockPath, { force: true })                      *)
(***************************************************************************)
Finally(i) ==
  /\ inv[i].pc = "finally"
  /\ lockFile' = FALSE
  /\ Set(i, [inv[i] EXCEPT !.pc = "done"])
  /\ UNCHANGED << appDir, nodeModules, pkgLock, installHash, dist, tree,
                  tsPatched, envVars, sideVars, prevCall >>

(***************************************************************************)
(* The generate-app handler (src/web-ui/app/api/generate-app/route.ts):     *)
(* generateApp, then writeFiles on the same target directory.  It neither  *)
(* opens nor looks at the lock marker.                                     *)
(***************************************************************************)
GenIdle == [pc |-> "idle", project |-> "none"]

\* the request is answered 400 without a prompt and 500 without the API key
GenRequest ==
  /\ gen.pc \in {"idle", "done"}
  /\ genQuota > 0
  /\ genQuota' = genQuota - 1
  /\ \E p \in BOOLEAN :
       gen' = IF p /\ apiKey THEN [pc |-> "generating", project |-> "none"]
              ELSE [pc |-> "done", project |-> "none"]
  /\ UNCHANGED << fsVars, apiKey, handlers, quota, probeLimit, observe,
                  platform, procs, cli, ui, inv, prevCall >>

\* generateApp throws or returns; Object.keys(project.files) throws on a
\* response without a files key, before anything is written
GenGenerate ==
  /\ gen.pc = "generating"
  /\ \/ gen' = [pc |-> "done", project |-> "none"]
     \/ \E g \in GeneratorResults :
          gen' = IF g = "nofiles" THEN [pc |-> "done", project |-> "none"]
                 ELSE [pc |-> "write_rm", project |-> g]
  /\ UNCHANGED << fsVars, envVars, procs, cli, ui, inv, prevCall >>

GenWriteRm ==
  /\ gen.pc = "write_rm"
  /\ appDir' = FALSE
  /\ lockFile' = FALSE
  /\ nodeModules' = FALSE
  /\ pkgLock' = NoFile
  /\ installHash' = NoFile
  /\ dist' = FALSE
  /\ tree' = "empty"
  /\ tsPatched' = FALSE
  /\ gen' = [gen EXCEPT !.pc = "write_mk"]
  /\ SetPrev([prevCall EXCEPT !.kept = FALSE])
  /\ UNCHANGED << envVars, procs, cli, ui, inv >>

GenWriteMk ==
  /\ gen.pc = "write_mk"
  /\ appDir' = TRUE
  /\ tree' = IF gen.project \in WellFormed THEN gen.project ELSE tree
  /\ tsPatched' = (tsPatched /\ gen.project \notin WellFormed)
  /\ gen' = [pc |-> "done", project |-> "none"]
  /\ UNCHANGED << lockFile, nodeModules, pkgLock, installHash, dist, envVars,
                  procs, cli, ui, inv, prevCall >>

(***************************************************************************)
(* The CLI runner (src/runner.ts): main, handleError and runNpmDev.  The   *)
(* runner works on its own generated-app directory, next to runner.ts.     *)
(***************************************************************************)
\* `project.port || 3000`
DefaultPort == 3000

\* the port field of a generator response; 0 stands for a missing or falsy one
CliPorts == {0, DefaultPort, 5173}

\* the dev-server children: the one main spawns, the one handleError spawns
CliChildren == {1, 2}

CliOff ==
  [pc |-> "off", key |-> FALSE, arg |-> FALSE, promptFile |-> FALSE,
   phase |-> "main", port |-> 0, devPort |-> 0,
   child |-> [k \in CliChildren |-> "none"], serverReady |-> FALSE,
   timer |-> FALSE, exitCode |-> NullCode,
   \* observers
   calls |-> 0, fixCalls |-> 0, failedAt |-> "none", fixFailedAt |-> "none"]

\* the process at its first statement, with or without OPENAI_API_KEY, a
\* prompt on the command line and a readable system-prompt.txt
CliBoot(key, arg, file) ==
  [CliOff EXCEPT !.pc = "boot", !.key = key, !.arg = arg, !.promptFile = file]

\* process.exit(code)
CliExit(c, code) == [c EXCEPT !.pc = "exited", !.exitCode = code, !.timer = FALSE]

\* the child the current phase spawns
CliCurrent(c) == IF c.phase = "main" THEN 1 ELSE 2

\* variant in which a failure of the fix path starts another fix
CliFailRetries(c, step) ==
  IF c.phase = "main"
  THEN [c EXCEPT !.pc = "reread", !.failedAt = step, !.timer = FALSE]
  ELSE [c EXCEPT !.pc = "reread", !.fixFailedAt = step, !.timer = FALSE]

\* an Error thrown or a rejection inside the try block: in main the catch
\* clause goes on to handleError, in handleError the catch clause exits
CliFail(c, step) ==
  IF c.phase = "main"
  THEN [c EXCEPT !.pc = "reread", !.failedAt = step, !.timer = FALSE]
  ELSE CliExit([c EXCEPT !.fixFailedAt = step], 1)

\* the module body and the start of main: no API key, no prompt
CliStart ==
  /\ cli.pc = "boot"
  /\ cli' = IF ~cli.key \/ ~cli.arg THEN CliExit(cli, 1)
            ELSE [cli EXCEPT !.pc = "read"]
  /\ UNCHANGED << fsVars, envVars, gen, procs, ui, inv, prevCall >>

\* readSystemPrompt in main and again in its catch clause: an unreadable
\* file ends the process
CliReadPrompt ==
  /\ cli.pc \in {"read", "reread"}
  /\ cli' = IF ~cli.promptFile THEN CliExit(cli, 1)
            ELSE IF cli.pc = "read" THEN [cli EXCEPT !.pc = "generate"]
            ELSE [cli EXCEPT !.pc = "generate", !.phase = "fix"]
  /\ UNCHANGED << fsVars, envVars, gen, procs, ui, inv, prevCall >>

\* callOpenAI: with the error context in handleError; it returns the parsed
\* response or throws
CliCallOpenAI ==
  /\ cli.pc = "generate"
  /\ LET c == [cli EXCEPT !.calls = @ + 1,
                          !.fixCalls = IF cli.phase = "fix" THEN @ + 1 ELSE @]
     IN  \/ cli' = CliFail(c, "generate")
         \/ \E p \in CliPorts : cli' = [c EXCEPT !.pc = "write", !.port = p]
  /\ UNCHANGED << fsVars, envVars, gen, procs, ui, inv, prevCall >>

\* writeFiles
CliWriteFiles ==
  /\ cli.pc = "write"
  /\ \/ cli' = CliFail(cli, "write")
     \/ cli' = [cli EXCEPT !.pc = "install"]
  /\ UNCHANGED << fsVars, envVars, gen, procs, ui, inv, prevCall >>

\* runNpmInstall: resolves on exit code 0, throws otherwise
CliNpmInstall ==
  /\ cli.pc = "install"
  /\ \/ cli' = CliFail(cli, "install")
     \/ cli' = [cli EXCEPT !.pc = "dev"]
  /\ UNCHANGED << fsVars, envVars, gen, procs, ui, inv, prevCall >>

\* runNpmDev up to the return of its promise: spawn `npm run dev`, arm the
\* 30-second timer; a child that cannot be spawned emits 'error' later.
\* main passes `project.port || 3000`, handleError `fixedProject.port || port`
\* with port = 3000
CliSpawnDev ==
  /\ cli.pc = "dev"
  /\ \E st \in {"running", "failed"} :
       cli' = [cli EXCEPT !.pc = "starting", !.devPort = IF cli.port # 0 THEN cli.port
                                       ELSE DefaultPort,
                          !.child[CliCurrent(cli)] = st,
                          !.serverReady = FALSE, !.timer = TRUE]
  /\ UNCHANGED << fsVars, envVars, gen, procs, ui, inv, prevCall >>

\* proc.on("error"): the timer is cleared and the promise rejected
CliDevError ==
  /\ cli.pc = "starting"
  /\ cli.child[CliCurrent(cli)] = "failed"
  /\ cli' = CliFail(cli, "dev")
  /\ UNCHANGED << fsVars, envVars, gen, procs, ui, inv, prevCall >>

\* a ready marker on stdout or stderr of the child being started: markReady
\* clears the timer and schedules the resolve
CliDevReady ==
  /\ cli.pc = "starting"
  /\ cli.child[CliCurrent(cli)] = "running"
  /\ cli' = [cli EXCEPT !.serverReady = TRUE, !.timer = FALSE, !.pc = "opening"]
  /\ UNCHANGED << fsVars, envVars, gen, procs, ui, inv, prevCall >>

\* 1500 ms after the marker: the browser is opened and the promise resolved;
\* the caller then waits on a promise that never settles
CliOpened ==
  /\ cli.pc = "opening"
  /\ cli' = [cli EXCEPT !.pc = "serving"]
  /\ UNCHANGED << fsVars, envVars, gen, procs, ui, inv, prevCall >>

\* the 30-second timer fires before a marker was seen: the promise is
\* rejected, the child is left as it is
CliDevTimeout ==
  /\ cli.pc = "starting"
  /\ cli.timer
  /\ ~cli.serverReady
  /\ cli' = CliFail(cli, "timeout")
  /\ UNCHANGED << fsVars, envVars, gen, procs, ui, inv, prevCall >>

\* proc.on("close") of child k.  For the child being started the timer is
\* cleared, and the promise is rejected on a non-zero code before readiness;
\* on code 0 or null before readiness nothing settles the promise any more.
\* For a child whose promise is settled the handler has no effect.  The
\* code is 0, non-zero or null (ended by a signal).
CliDevClose(k) ==
  /\ cli.pc \notin {"off", "exited"}
  /\ cli.child[k] = "running"
  /\ \E code \in {0, 1, NullCode} :
       LET c == [cli EXCEPT !.child[k] = "exited"]
       IN  cli' = IF k = CliCurrent(cli) /\ cli.pc = "starting"
                  THEN IF code # 0 /\ code # NullCode
                       THEN CliFail(c, "close")
                       ELSE [c EXCEPT !.pc = "stalled", !.timer = FALSE]
                  ELSE c
  /\ UNCHANGED << fsVars, envVars, gen, procs, ui, inv, prevCall >>

\* nothing is left to wait for: the event loop drains and the process ends
CliDrain ==
  /\ cli.pc = "stalled"
  /\ \A k \in CliChildren : cli.child[k] # "running"
  /\ cli' = CliExit(cli, 0)
  /\ UNCHANGED << fsVars, envVars, gen, procs, ui, inv, prevCall >>

\* the SIGINT handler main registers once its dev server is up
CliSigint ==
  /\ cli.pc = "serving"
  /\ cli.phase = "main"
  /\ cli' = CliExit(cli, 0)
  /\ UNCHANGED << fsVars, envVars, gen, procs, ui, inv, prevCall >>

(***************************************************************************)
(* The upload page (src/web-ui/app/page.tsx): the status state of Home and *)
(* the runs of handleImageUpload, one step per await.                      *)
(***************************************************************************)
\* uploads made in SpecUi
MaxUploads == 3

\* the `disabled` prop without the building state
DisabledExceptBuilding(status) ==
  status = "uploading" \/ status = "extracting" \/ status = "generating"

\* the `disabled` prop Home passes to ImageUpload
Disabled(status) ==
  status = "uploading" \/ status = "extracting" \/ status = "generating"
    \/ status = "building"

\* ImageUpload: the control calls onUpload with the chosen file unless it is
\* disabled
CanUpload(disabled) == ~disabled

\* the render that follows a state update
Render(u) == [u EXCEPT !.disabled = Disabled(u.status)]

\* the page as loaded: useState('idle'), useState('') three times
UiLoaded ==
  Render([status |-> "idle", message |-> "", extractedText |-> FALSE,
          error |-> "", disabled |-> FALSE,
          run |-> [r \in 1..MaxUploads |-> "none"], n |-> 0, tabs |-> 0])

UiClosed == [UiLoaded EXCEPT !.status = "closed"]

\* the catch clause of handleImageUpload
UiCatch(u, r, kind) ==
  Render([u EXCEPT !.status = "error", !.error = kind, !.message = "",
                   !.run[r] = "ended"])

UiRest == << fsVars, envVars, gen, procs, cli, inv, prevCall >>

\* the user picks a file: handleImageUpload runs up to its first await
UiUpload ==
  /\ ui.n < MaxUploads
  /\ CanUpload(ui.disabled)
  /\ ui' = Render([ui EXCEPT !.extractedText = FALSE, !.status = "uploading",
                             !.message = "uploading", !.error = "",
                             !.run[ui.n + 1] = "base64", !.n = ui.n + 1])
  /\ UNCHANGED UiRest

\* fileToBase64 settles (the rejection carries an event, not an Error); on
\* success the extract-text request is sent
UiBase64(r) ==
  /\ ui.run[r] = "base64"
  /\ \/ ui' = UiCatch(ui, r, "unknown")
     \/ ui' = Render([ui EXCEPT !.status = "extracting", !.message = "extracting",
                                !.run[r] = "extract"])
  /\ UNCHANGED UiRest

\* a fetch settles: rejected or answered
UiFetch(r, at, body) ==
  /\ ui.run[r] = at
  /\ \/ ui' = UiCatch(ui, r, "network")
     \/ ui' = [ui EXCEPT !.run[r] = body]
  /\ UNCHANGED UiRest

\* the body of the extract-text answer: an answer that is not ok throws its
\* error field or the default text, a failed json() of an ok answer throws;
\* otherwise the text (possibly missing) is kept and the generate-app
\* request is sent
UiExtracted(r) ==
  /\ ui.run[r] = "extract_body"
  /\ \/ \E kind \in {"extract_api", "extract_default", "json"} :
          ui' = UiCatch(ui, r, kind)
     \/ \E text \in BOOLEAN :
          ui' = Render([ui EXCEPT !.extractedText = text, !.status = "generating",
                                  !.message = "generating", !.run[r] = "generate"])
  /\ UNCHANGED UiRest

\* the body of the generate-app answer; on success the build-app request is
\* sent with the 180-second abort timer
UiGenerated(r) ==
  /\ ui.run[r] = "generate_body"
  /\ \/ \E kind \in {"generate_api", "generate_default", "json"} :
          ui' = UiCatch(ui, r, kind)
     \/ ui' = Render([ui EXCEPT !.status = "building", !.message = "building",
                                !.run[r] = "build"])
  /\ UNCHANGED UiRest

\* the build-app fetch settles: aborted by the timer, rejected, answered
UiBuilt(r) ==
  /\ ui.run[r] = "build"
  /\ \/ ui' = UiCatch(ui, r, "timeout")
     \/ ui' = UiCatch(ui, r, "network")
     \/ ui' = [ui EXCEPT !.run[r] = "build_body"]
  /\ UNCHANGED UiRest

\* the build-app answer: not ok throws the error with its logs; ok sets
\* success and arms the 2-second timer that opens the app
UiFinished(r) ==
  /\ ui.run[r] = "build_body"
  /\ \/ \E kind \in {"build_api", "build_default"} : ui' = UiCatch(ui, r, kind)
     \/ ui' = Render([ui EXCEPT !.status = "success", !.message = "success",
                                !.run[r] = "ended", !.tabs = @ + 1])
  /\ UNCHANGED UiRest

\* window.open after the 2-second delay
UiOpenTab ==
  /\ ui.tabs > 0
  /\ ui' = [ui EXCEPT !.tabs = @ - 1]
  /\ UNCHANGED UiRest

(***************************************************************************)
(* Specifications.                                                         *)
(*   Spec       one handler slot: requests are served one after another    *)
(*   SpecConc   two handler slots: requests overlap                        *)
(*   SpecProbe  the health prober alone, from the state right after        *)
(*              launch, with the probe observer switched on                *)
(*   SpecGen    one build handler slot next to the generate-app handler    *)
(*   SpecPort   port reclaim and launch alone, over the platforms and a    *)
(*              table of other processes                                   *)
(*   SpecServe  the health prober next to the dev server process, which    *)
(*              may exit or fail to spawn                                  *)
(*   SpecLive   Spec with every started handler step eventually taken      *)
(***************************************************************************)
\* requests accepted in SpecConc
MaxConcRequests == 2

\* iterations of the probe loop in Spec
ProbeRounds == 5

\* iterations of the probe loop in SpecConc
ConcProbeRounds == 1

\* generate-app requests accepted in SpecGen
MaxGenRequests == 1

\* other processes on the machine in SpecPort
MaxProcs == 2

\* no generate-app traffic, no other processes
InitSide ==
  /\ genQuota = 0
  /\ platform = "linux"
  /\ gen = GenIdle
  /\ procs = << >>
  /\ cli = CliOff
  /\ ui = UiClosed

Init ==
  /\ InitSide
  /\ InitFs
  /\ apiKey \in BOOLEAN
  /\ handlers = {1}
  /\ quota = MaxRequests
  /\ probeLimit = ProbeRounds
  /\ observe = TRUE
  /\ inv = [s \in Slots |-> Idle]

InitConc ==
  /\ InitSide
  /\ InitFs
  /\ appDir
  /\ tree = "badImport"
  /\ apiKey = TRUE
  /\ handlers = Slots
  /\ quota = MaxConcRequests
  /\ probeLimit = ConcProbeRounds
  /\ observe = FALSE
  /\ inv = [s \in Slots |-> Idle]

InitProbe ==
  /\ InitSide
  /\ appDir = TRUE
  /\ lockFile = TRUE
  /\ nodeModules = TRUE
  /\ pkgLock = NoFile
  /\ installHash = computeInstallHash(PkgA, NoFile)
  /\ dist = TRUE
  /\ tree = "good"
  /\ tsPatched = FALSE
  /\ prevCall = [ok |-> TRUE, pkg |-> PkgA, lock |-> NoFile, kept |-> TRUE]
  /\ apiKey \in BOOLEAN
  /\ handlers = {1}
  /\ quota = 0
  /\ probeLimit = MAX_PROBES
  /\ observe = TRUE
  /\ inv = [s \in Slots |->
              IF s = 1
              THEN [Fresh(FALSE, TRUE) EXCEPT !.pc = "probing", !.lockFd = TRUE,
                                              !.launched = TRUE, !.lastBuild = "ok",
                                              !.server = "running"]
              ELSE Idle]

InitGen ==
  /\ InitFs
  /\ appDir
  /\ tree = "good"
  /\ apiKey = TRUE
  /\ handlers = {1}
  /\ quota = 1
  /\ probeLimit = ConcProbeRounds
  /\ observe = FALSE
  /\ inv = [s \in Slots |-> Idle]
  /\ genQuota = MaxGenRequests
  /\ platform = "linux"
  /\ gen = GenIdle
  /\ procs = << >>
  /\ cli = CliOff
  /\ ui = UiClosed

\* the state at the end of the repair loop, on each platform and with each
\* table of other processes
InitPort ==
  /\ appDir = TRUE
  /\ lockFile = TRUE
  /\ nodeModules = TRUE
  /\ pkgLock = NoFile
  /\ installHash = computeInstallHash(PkgA, NoFile)
  /\ dist = TRUE
  /\ tree = "good"
  /\ tsPatched = FALSE
  /\ prevCall = [ok |-> TRUE, pkg |-> PkgA, lock |-> NoFile, kept |-> TRUE]
  /\ apiKey \in BOOLEAN
  /\ handlers = {1}
  /\ quota = 0
  /\ probeLimit = ProbeRounds
  /\ observe = TRUE
  /\ inv = [s \in Slots |->
              IF s = 1
              THEN [Fresh(FALSE, FALSE) EXCEPT !.pc = "reclaim", !.lockFd = TRUE,
                                               !.lastBuild = "ok", !.iters = 1]
              ELSE Idle]
  /\ genQuota = 0
  /\ gen = GenIdle
  /\ platform \in Platforms
  /\ procs \in [1..MaxProcs -> ProcKinds]
  /\ cli = CliOff
  /\ ui = UiClosed

\* every step of a handler after the arrival of its request
Proceed(i) ==
  \/ Acquire(i)
  \/ CheckDir(i)
  \/ InstallStart(i)
  \/ NpmFirstExit(i)
  \/ NpmRetryExit(i)
  \/ NpmLegacyExit(i)
  \/ Validate(i)
  \/ ClearBuildOutput(i)
  \/ RunCompileGate(i)
  \/ Generator(i)
  \/ WriteFilesRm(i)
  \/ WriteFilesWrite(i)
  \/ Reclaim(i)
  \/ Launch(i)
  \/ StreamReady(i)
  \/ Probe(i)
  \/ Finally(i)

Step(i) == NewRequest(i) \/ Proceed(i)

Next == \E i \in handlers : Step(i)

NextProbe == \E i \in handlers : StreamReady(i) \/ Probe(i) \/ Finally(i)

Spec == Init /\ [][Next]_vars

SpecConc == InitConc /\ [][Next]_vars

SpecProbe == InitProbe /\ [][NextProbe]_vars

NextGen ==
  \/ \E i \in handlers : Step(i)
  \/ GenRequest
  \/ GenGenerate
  \/ GenWriteRm
  \/ GenWriteMk

SpecGen == InitGen /\ [][NextGen]_vars

NextPort == \E i \in handlers : Reclaim(i) \/ Launch(i)

\* the state right after launch, the probe observer switched off
InitServe ==
  /\ InitSide
  /\ appDir = TRUE
  /\ lockFile = TRUE
  /\ nodeModules = TRUE
  /\ pkgLock = NoFile
  /\ installHash = computeInstallHash(PkgA, NoFile)
  /\ dist = TRUE
  /\ tree = "good"
  /\ tsPatched = FALSE
  /\ prevCall = [ok |-> TRUE, pkg |-> PkgA, lock |-> NoFile, kept |-> TRUE]
  /\ apiKey = TRUE
  /\ handlers = {1}
  /\ quota = 0
  /\ probeLimit = MAX_PROBES
  /\ observe = TRUE
  /\ inv = [s \in Slots |->
              IF s = 1
              THEN [Fresh(FALSE, FALSE) EXCEPT !.pc = "probing", !.lockFd = TRUE,
                                               !.launched = TRUE, !.lastBuild = "ok",
                                               !.server = "running"]
              ELSE Idle]

NextServe ==
  \E i \in handlers :
    \/ StreamReady(i)
    \/ Probe(i)
    \/ ServerExit(i)
    \/ ServerError(i)
    \/ Finally(i)

SpecServe == InitServe /\ [][NextServe]_vars

\* the runner started from the command line, the supervisor idle
InitRunner ==
  /\ InitFs
  /\ ~appDir
  /\ apiKey = TRUE
  /\ handlers = {1}
  /\ quota = 0
  /\ probeLimit = ProbeRounds
  /\ observe = TRUE
  /\ inv = [s \in Slots |-> Idle]
  /\ genQuota = 0
  /\ platform = "linux"
  /\ gen = GenIdle
  /\ procs = << >>
  /\ ui = UiClosed
  /\ \E key \in BOOLEAN, arg \in BOOLEAN, file \in BOOLEAN :
       cli = CliBoot(key, arg, file)

NextRunner ==
  \/ CliStart
  \/ CliReadPrompt
  \/ CliCallOpenAI
  \/ CliWriteFiles
  \/ CliNpmInstall
  \/ CliSpawnDev
  \/ CliDevError
  \/ CliDevReady
  \/ CliOpened
  \/ CliDevTimeout
  \/ \E k \in CliChildren : CliDevClose(k)
  \/ CliDrain
  \/ CliSigint

SpecRunner == InitRunner /\ [][NextRunner]_vars

\* the page loaded in a browser
InitUi ==
  /\ genQuota = 0
  /\ platform = "linux"
  /\ gen = GenIdle
  /\ procs = << >>
  /\ cli = CliOff
  /\ ui = UiLoaded
  /\ InitFs
  /\ ~appDir
  /\ apiKey = TRUE
  /\ handlers = {1}
  /\ quota = 0
  /\ probeLimit = ProbeRounds
  /\ observe = TRUE
  /\ inv = [s \in Slots |-> Idle]

NextUi ==
  \/ UiUpload
  \/ \E r \in 1..MaxUploads :
       \/ UiBase64(r)
       \/ UiFetch(r, "extract", "extract_body")
       \/ UiExtracted(r)
       \/ UiFetch(r, "generate", "generate_body")
       \/ UiGenerated(r)
       \/ UiBuilt(r)
       \/ UiFinished(r)
  \/ UiOpenTab

SpecUi == InitUi /\ [][NextUi]_vars

SpecPort == InitPort /\ [][NextPort]_vars

\* Each await of a handler resolves (subprocesses exit, the Generator
\* answers or fails, probes complete or time out), so a handler that can
\* take a step eventually takes it.
SpecLive == Init /\ [][Next]_vars /\ \A i \in Slots : WF_vars(Proceed(i))

(***************************************************************************)
(* Properties.                                                             *)
(***************************************************************************)
\* positions between a successful lock acquisition and the finally block
PastLock ==
  {"checkdir", "install", "npm_first", "npm_retry", "npm_legacy", "validate",
   "build", "generating", "write_rm", "write_mk", "reclaim", "launch",
   "probing"}

Returned(rec) == rec.pc \in {"finally", "done"}

\* C1 (single-flight, SpecConc): at every moment at most one invocation is
\* past lock acquisition.
C1_SingleFlight ==
  Cardinality({ i \in Slots : inv[i].pc \in PastLock }) <= 1

\* C2 (Spec): port reclaim and launch happen only when the last compile run
\* of the invocation exited with status 0.
C2_LaunchOnlyAfterCompileOk ==
  \A i \in Slots :
    (inv[i].pc \in {"reclaim", "launch", "probing"} \/ inv[i].launched)
      => inv[i].lastBuild = "ok"

\* C3 (Spec): an invocation that acquired the lock and has returned, on
\* whatever outcome, has removed the lock marker: after a lone invocation
\* the lock file is absent.
C3_LockReleasedOnReturn ==
  \A i \in Slots : (inv[i].pc = "done" /\ inv[i].lockFd) => ~lockFile

C3_Witness ==
  \E i \in Slots : /\ inv[i].pc = "done"
                   /\ inv[i].lockFd
                   /\ inv[i].result = "fatal"
                   /\ inv[i].errOutput # << >>

\* C4 (Spec): one invocation calls the Generator at most
\* MAX_REPAIR_ATTEMPTS times.
C4_RepairBound ==
  \A i \in Slots : inv[i].genCalls <= MAX_REPAIR_ATTEMPTS

C4_Witness ==
  \E i \in Slots : inv[i].pc = "done" /\ inv[i].genCalls = MAX_REPAIR_ATTEMPTS

\* C5 (Spec): the compile gate reports success iff the build subprocess
\* closed with exit code exactly 0, whatever it printed; other codes, a
\* missing code and a spawn error are failures.
C5_StrictGate ==
  \A i \in Slots :
    inv[i].buildEv.kind # "none" =>
      (inv[i].buildRes.ok <=>
         (inv[i].buildEv.kind = "close" /\ inv[i].buildEv.code = 0))

C5_Witness ==
  \E i \in Slots : /\ inv[i].buildEv.kind = "close"
                   /\ inv[i].buildEv.code = 1
                   /\ inv[i].buildEv.output = << "success" >>
                   /\ ~inv[i].buildRes.ok
                   /\ inv[i].lastBuild = "fail"

\* the number of 500s at the end of the observed probe statuses
RECURSIVE Trailing500(_)
Trailing500(w) ==
  IF w = << >> \/ w[Len(w)] # 500 THEN 0
  ELSE 1 + Trailing500(SubSeq(w, 1, Len(w) - 1))

\* C6 (SpecProbe): the consecutive-error counter equals the number of
\* immediately preceding consecutive probes that returned 500; RuntimeFailure
\* is the result exactly when it reaches 5; after any other outcome it is 0,
\* and polling continues unless the probe was a ready response or the last.
C6_HealthClassification ==
  \A i \in handlers :
    LET r == inv[i]
        w == r.window
    IN  w # Off =>
          /\ r.consecutive500Errors = Trailing500(w)
          /\ (r.result = "runtime500") <=> (r.consecutive500Errors = MAX_CONSECUTIVE_500)
          /\ (/\ w # << >>
              /\ w[Len(w)] # 500
              /\ ~(w[Len(w)] >= 200 /\ w[Len(w)] < 500)
              /\ r.i < MAX_PROBES) => r.pc = "probing"

C6_Witness ==
  \E i \in handlers : /\ inv[i].result = "runtime500"
                      /\ inv[i].i > MAX_CONSECUTIVE_500
                      /\ inv[i].window = << 500, 500, 500, 500, 500 >>

\* C7 as stated (SpecProbe): success only if some probe received a status in
\* [200, 500); all 30 probes without one and without five consecutive 500s
\* give Timeout.
C7_SuccessOnlyAfterReadyProbe ==
  \A i \in handlers :
    /\ inv[i].result = "success" => inv[i].probeOk
    /\ (Returned(inv[i]) /\ inv[i].i = MAX_PROBES /\ ~inv[i].probeOk)
         => inv[i].result = "timeout"

\* C7 amended (SpecProbe): success only if some probe received a status in
\* [200, 500) or a ready marker was seen on the dev server's output; all 30
\* probes without either and without five consecutive 500s give Timeout.
C7_SuccessOnlyAfterReadySignal ==
  \A i \in handlers :
    /\ inv[i].result = "success" => (inv[i].probeOk \/ inv[i].streamSeen)
    /\ (Returned(inv[i]) /\ inv[i].i = MAX_PROBES
          /\ ~inv[i].probeOk /\ ~inv[i].streamSeen)
         => inv[i].result = "timeout"
    /\ inv[i].result = "timeout" => inv[i].i = MAX_PROBES

C7_Witness ==
  \E i \in handlers : /\ inv[i].result = "success"
                      /\ ~inv[i].probeOk
                      /\ inv[i].streamSeen
                      /\ inv[i].i = MAX_PROBES

C9_CorruptInstallSelfHeal ==
  \A i \in Slots :
    LET r   == inv[i]
        log == r.npmLog
    IN  (Len(log) >= 1 /\ log[1].code # 0 /\ looksLikeCorruptInstall(log[1].output))
          => IF Len(log) = 1
             THEN /\ r.pc = "npm_retry"
                  /\ ~dist /\ ~nodeModules
                  /\ pkgLock = NoFile /\ installHash = NoFile
             ELSE /\ Len(log) = 2
                  /\ log[2].cmd = log[1].cmd
                  /\ log[2].code = 0 =>
                       /\ r.result = "none"
                       /\ r.pc \in {"validate", "reclaim"}
                       /\ r.ret = "initial" => r.pc = "validate"
                  /\ log[2].code # 0 =>
                       /\ r.result = "fatal"
                       /\ r.errOutput = log[2].output

C9_Witness ==
  \E i \in Slots :
    LET log == inv[i].npmLog
    IN  /\ Len(log) = 2
        /\ looksLikeCorruptInstall(log[1].output)
        /\ log[1].code # 0
        /\ log[2].code = 0
        /\ inv[i].pc = "validate"
        /\ nodeModules

\* C10 as stated (Spec): without a prompt or without credentials the
\* Generator is never invoked and the invocation returns at its first
\* validator finding or compile failure.
C10_FirstFailureTerminal ==
  \A i \in Slots :
    (inv[i].pc # "idle" /\ (~inv[i].prompt \/ ~apiKey))
      => /\ inv[i].genCalls = 0
         /\ inv[i].failSeen # "none" => Returned(inv[i])

\* C10 amended (Spec): without a prompt or without credentials the Generator
\* is never invoked and the invocation returns at its first validator finding
\* or at its first compile failure that is not taken by the corrupt-install
\* branch.
C10_FirstHardFailureTerminal ==
  \A i \in Slots :
    (inv[i].pc # "idle" /\ (~inv[i].prompt \/ ~apiKey))
      => /\ inv[i].genCalls = 0
         /\ inv[i].failSeen = "hard" =>
              /\ Returned(inv[i])
              /\ inv[i].result \in {"import_terminal", "import_norepair",
                                    "nextjs_terminal", "nextjs_norepair",
                                    "vite_terminal", "vite_norepair",
                                    "compile_terminal", "compile_norepair"}

C10_Witness ==
  \E i \in Slots : /\ ~inv[i].prompt
                   /\ inv[i].pc = "done"
                   /\ inv[i].failSeen = "hard"
                   /\ inv[i].result = "compile_norepair"
                   /\ inv[i].attempt = 0

\* positions inside runNpmInstallWithFallback
InInstaller == {"install", "npm_first", "npm_retry", "npm_legacy"}

\* C11 (Spec): a validation pass starts only when the installer call before
\* it has returned normally; a compile run starts only out of a validation
\* pass that found nothing; port reclaim starts only at the exit of the
\* repair loop, launch only after port reclaim and probing only after launch.
C11_StageOrdering ==
  [][\A i \in Slots :
       LET a == inv[i]
           b == inv'[i]
       IN  b.pc # a.pc =>
             /\ b.pc = "validate" =>
                  /\ a.pc \in InInstaller
                  /\ prevCall'.ok
                  /\ nodeModules'
                  /\ b.result = "none"
             /\ b.pc = "build" =>
                  /\ a.pc = "validate"
                  /\ findForbiddenNonRelativeImports(Files) = NoFinding
                  /\ findForbiddenNextJsUsage(Files) = NoFinding
             /\ b.pc = "reclaim" =>
                  \/ a.pc = "build" /\ b.lastBuild = "ok"
                  \/ a.pc \in InInstaller /\ a.attempt >= MAX_REPAIR_ATTEMPTS
             /\ b.pc = "launch" => a.pc = "reclaim"
             /\ b.pc = "probing" => a.pc = "launch"
             /\ a.pc = "probing" => b.pc = "finally"]_vars

C11_Witness ==
  \E i \in Slots : /\ inv[i].pc = "probing"
                   /\ inv[i].launched
                   /\ inv[i].lastBuild = "ok"
                   /\ inv[i].genCalls = 1
                   /\ inv[i].i = 2

\* C12 (Spec): the busy (409) result is returned only when the lock marker
\* already existed when the invocation tried to create it.
C12_BusyOnlyWhenMarkerExists ==
  \A i \in Slots :
    (inv[i].result # "none" /\ Response(inv[i].result).status = 409)
      => inv[i].markerAtOpen

\* C13 (SpecConc): an invocation that finds the marker present goes from
\* lock acquisition straight to its busy return, touching nothing in the
\* target directory and entering no stage.
C13_BusyAtOnce ==
  [][\A i \in Slots :
       (inv[i].pc = "start" /\ lockFile /\ inv'[i] # inv[i])
         => /\ inv'[i].pc = "finally"
            /\ inv'[i].result = "busy"
            /\ ~inv'[i].lockFd
            /\ UNCHANGED fsVars]_vars

C13_Witness ==
  \E i, j \in Slots : /\ inv[i].pc = "finally"
                      /\ inv[i].result = "busy"
                      /\ ~inv[i].lockFd
                      /\ inv[j].pc = "npm_first"
                      /\ lockFile

\* C14 (SpecGen): while a build invocation is between lock acquisition and
\* release, no step of the generate-app handler changes the target directory.
C14_NoMutationWhileLocked ==
  [][((\E i \in handlers : inv[i].pc \in PastLock) /\ gen' # gen)
       => UNCHANGED fsVars]_vars

\* C15 (Spec): a Generator result without a non-empty file mapping is never
\* written: no invocation is inside writeFiles with such a result.
C15_MalformedNeverWritten ==
  \A i \in Slots :
    inv[i].pc \in {"write_rm", "write_mk"} => inv[i].repaired \in WellFormed

\* C16 (Spec): every failure result of an invocation that acquired the lock
\* carries a suggestion.
C16_FailureHasSuggestion ==
  \A i \in Slots :
    (Returned(inv[i]) /\ inv[i].lockFd /\ inv[i].result \notin {"success", "none"})
      => Response(inv[i].result).suggestion

\* C17 (SpecPort): every process the port cleanup terminated was listening
\* on the application port.
C17_OnlyAppPortKilled ==
  \A p \in DOMAIN procs : ~procs[p].alive => procs[p].listen = APP_PORT

\* C18 (SpecLive): every invocation eventually returns; the repair loop runs
\* at most MAX_REPAIR_ATTEMPTS + 1 iterations, an installer call runs at most
\* two install subprocesses and the probe loop at most probeLimit probes.
C18_EveryInvocationReturns ==
  /\ [](\A i \in Slots :
          /\ inv[i].iters <= MAX_REPAIR_ATTEMPTS + 1
          /\ inv[i].attempt <= MAX_REPAIR_ATTEMPTS + 1
          /\ Len(inv[i].npmLog) <= 2
          /\ inv[i].i <= probeLimit)
  /\ \A i \in Slots :
       (inv[i].pc \notin {"idle", "done"}) ~> (inv[i].pc = "done")

C18_Witness ==
  \E i \in Slots : /\ inv[i].pc = "done"
                   /\ inv[i].result = "timeout"
                   /\ inv[i].i = probeLimit
                   /\ inv[i].genCalls = MAX_REPAIR_ATTEMPTS

\* C19 (Spec): from lock acquisition to the release step of an invocation the
\* lock marker exists.
C19_MarkerHeldUntilRelease ==
  \A i \in Slots : inv[i].pc \in PastLock => lockFile

\* C20 (SpecConc): the release step of an invocation rejected as busy leaves
\* the lock marker as it was.
C20_BusyLeavesMarker ==
  [][\A i \in Slots :
       (inv[i].pc = "finally" /\ inv[i].result = "busy" /\ inv'[i].pc = "done")
         => lockFile' = lockFile]_vars

\* Generator calls still available at an attempt index
Budget(a) == IF a < MAX_REPAIR_ATTEMPTS THEN MAX_REPAIR_ATTEMPTS - a ELSE 0

\* C21 (Spec): after a compile failure taken by the corrupt-install branch
\* and the reinstall that follows it, the loop is back at validation with the
\* attempt index, and with it the number of Generator calls still available,
\* as they were at that compile failure.
C21_CorruptRetrySameIndex ==
  \A i \in Slots :
    (inv[i].corruptAt # NoIndex /\ inv[i].pc \notin InInstaller
       /\ ~Returned(inv[i]))
      => /\ inv[i].pc = "validate"
         /\ inv[i].attempt = inv[i].corruptAt
         /\ Budget(inv[i].attempt) = Budget(inv[i].corruptAt)

\* the installer call that has just returned normally ran an install command
RanAndSucceeded(rec) ==
  /\ rec.pc \in {"validate", "reclaim"}
  /\ rec.npmLog # << >>
  /\ rec.npmLog[Len(rec.npmLog)].code = 0

\* C22 (Spec): when an installer call that ran an install command returns
\* normally, the fingerprint file holds the fingerprint of the manifest and
\* lockfile as they are on disk at that moment, so that the skip test of an
\* immediately following call would succeed.
C22_PersistedFingerprintCurrent ==
  \A i \in Slots :
    RanAndSucceeded(inv[i])
      => /\ installHash = computeInstallHash(Manifest, pkgLock)
         /\ SkipInstall(installHash, computeInstallHash(Manifest, pkgLock),
                        nodeModules)

\* C23 (Spec): an installer call returns without running a subprocess exactly
\* when the fingerprint file exists, holds the fingerprint just computed from
\* manifest and lockfile, and node_modules exists; in every other case its
\* next step is the first install subprocess.
C23_SkipIffFingerprintCurrent ==
  [][\A i \in Slots :
       (inv[i].pc = "install" /\ inv'[i] # inv[i])
         => LET cached == /\ installHash # NoFile
                          /\ installHash = computeInstallHash(Manifest, pkgLock)
                          /\ nodeModules
            IN  /\ cached => /\ inv'[i].pc \in {"validate", "reclaim"}
                             /\ inv'[i].npmLog = << >>
                /\ ~cached => inv'[i].pc = "npm_first"
                /\ UNCHANGED fsVars]_vars

C23_Witness ==
  \E i \in Slots : /\ inv[i].pc = "validate"
                   /\ inv[i].npmLog = << >>
                   /\ inv[i].attempt = 0
                   /\ quota < MaxRequests - 1
                   /\ installHash = computeInstallHash(Manifest, pkgLock)
                   /\ pkgLock = NoFile
                   /\ nodeModules

\* C24 (Spec): an installer call runs at most two install subprocesses.  A
\* second one follows only a failed first one: the same command again when
\* the first output had a corruption signature, `npm install
\* --legacy-peer-deps` when it had none and no lockfile was in use.  With a
\* lockfile in use and no corruption signature the first failure is thrown.
C24_AtMostTwoInstallRuns ==
  \A i \in Slots :
    LET r   == inv[i]
        log == r.npmLog
    IN  /\ Len(log) <= 2
        /\ (Len(log) >= 1 /\ log[1].code = 0) => Len(log) = 1
        /\ Len(log) = 2 =>
             /\ log[1].code # 0
             /\ IF looksLikeCorruptInstall(log[1].output)
                THEN log[2].cmd = log[1].cmd
                ELSE /\ log[1].cmd = "install"
                     /\ log[2].cmd = "install --legacy-peer-deps"
        /\ (/\ Len(log) >= 1
            /\ log[1].code # 0
            /\ log[1].cmd = "ci"
            /\ ~looksLikeCorruptInstall(log[1].output))
             => /\ Len(log) = 1
                /\ Returned(r)
                /\ r.result = "fatal"
                /\ r.errOutput = log[1].output

C24_Witness ==
  \E i \in Slots :
    LET log == inv[i].npmLog
    IN  /\ Len(log) = 2
        /\ log[1].cmd = "install"
        /\ log[1].output = << "ERESOLVE" >>
        /\ log[2].cmd = "install --legacy-peer-deps"
        /\ log[2].code = 0
        /\ inv[i].pc = "validate"

\* C25 (Spec): while `npm ci` runs, as the first command or as the retry
\* after the corruption cleanup, package-lock.json exists; and the first
\* command is `npm install` whenever it does not exist.
C25_CiOnlyWithLockfile ==
  \A i \in Slots :
    /\ (inv[i].pc \in {"npm_first", "npm_retry"} /\ InstallCmd(inv[i]) = "ci")
         => pkgLock # NoFile
    /\ (inv[i].pc = "npm_first" /\ pkgLock = NoFile)
         => InstallCmd(inv[i]) = "install"

\* positions inside maybeAutoRepair
InRepair == {"generating", "write_rm", "write_mk"}

\* C26 (Spec): a repair step (Generator call, rewrite of the target
\* directory) is left only into an installer call or into a failure return,
\* and an installer call is left into the next validation pass (or the end
\* of the loop) only when it returned normally, with node_modules present;
\* so no validation pass and no compile run follows a repair without a
\* successful installer call in between.
C26_ReinstallAfterRepair ==
  [][\A i \in Slots :
       LET a == inv[i]
           b == inv'[i]
       IN  b.pc # a.pc =>
             /\ a.pc = "generating" => b.pc \in {"write_rm", "finally"}
             /\ a.pc = "write_rm" => b.pc = "write_mk"
             /\ a.pc = "write_mk" =>
                  \/ b.pc = "install" /\ b.ret = "loop" /\ b.npmLog = << >>
                  \/ b.pc = "finally" /\ b.result = "fatal"
             /\ (a.pc \in InInstaller /\ b.pc \notin InInstaller) =>
                  \/ /\ b.pc \in {"validate", "reclaim"}
                     /\ prevCall'.ok
                     /\ nodeModules'
                     /\ (a.npmLog # << >> \/ a.pc # "install")
                          => b.npmLog[Len(b.npmLog)].code = 0
                  \/ b.pc = "finally" /\ b.result = "fatal"
             /\ b.pc \in {"validate", "build"} => a.pc \notin InRepair]_vars

C26_Witness ==
  \E i \in Slots : /\ inv[i].pc = "validate"
                   /\ inv[i].genCalls = 1
                   /\ inv[i].attempt = 1
                   /\ Len(inv[i].npmLog) = 1
                   /\ inv[i].npmLog[1].code = 0
                   /\ prevCall.ok
                   /\ tree = "nextjs"

\* the results of the terminal returns of the repair loop
TerminalResults ==
  {"import_terminal", "nextjs_terminal", "vite_terminal", "compile_terminal"}

\* the step of invocation i is a validation pass with a finding or a compile
\* run that failed
FailureStep(i) ==
  \/ /\ inv[i].pc = "validate"
     /\ inv'[i].pc # "validate"
     /\ \/ findForbiddenNonRelativeImports(Files) # NoFinding
        \/ findForbiddenNextJsUsage(Files) # NoFinding
  \/ /\ inv[i].pc = "build"
     /\ inv'[i].pc # "build"
     /\ inv'[i].lastBuild = "fail"

\* what follows a failure step at the attempt index of the claim
TerminalOrRepair(i) ==
  IF inv[i].attempt = MAX_REPAIR_ATTEMPTS
  THEN /\ inv'[i].pc = "finally"
       /\ inv'[i].result \in TerminalResults
       /\ inv'[i].genCalls = inv[i].genCalls
  ELSE (inv[i].prompt /\ apiKey) =>
         /\ inv'[i].pc = "generating"
         /\ inv'[i].genCalls = inv[i].genCalls + 1

\* the failed compile run of the step is the one the corrupt-install branch
\* takes: a corruption signature without the missing-plugin message
CorruptBranchStep(i) ==
  /\ inv[i].pc = "build"
  /\ inv'[i].lastBuild = "fail"
  /\ looksLikeCorruptInstall(inv'[i].buildRes.output)
  /\ ~looksLikeMissingVitePluginReact(inv'[i].buildRes.output)

\* C27 as stated (Spec): at attempt index MAX_REPAIR_ATTEMPTS a validator
\* finding or a compile failure ends the invocation with a terminal failure
\* and without a Generator call; at a lower index, with prompt and
\* credentials, it starts exactly one Generator call.
C27_TerminalAtMaxRepairBelow ==
  [][\A i \in Slots : FailureStep(i) => TerminalOrRepair(i)]_vars

\* C27 amended (Spec): the same for a validator finding and for a compile
\* failure that is not taken by the corrupt-install branch; a compile failure
\* taken by that branch is followed by an installer call at every index,
\* without a Generator call and without a return.
C27_HardFailureTerminalAtMax ==
  [][\A i \in Slots :
       FailureStep(i) =>
         IF CorruptBranchStep(i)
         THEN /\ inv'[i].pc = "install"
              /\ inv'[i].genCalls = inv[i].genCalls
              /\ inv'[i].result = "none"
         ELSE TerminalOrRepair(i)]_vars

C27_Witness ==
  \E i \in Slots : /\ inv[i].pc = "finally"
                   /\ inv[i].result = "compile_terminal"
                   /\ inv[i].attempt = MAX_REPAIR_ATTEMPTS
                   /\ inv[i].genCalls = MAX_REPAIR_ATTEMPTS
                   /\ inv[i].lastBuild = "fail"

\* positions inside the repair loop, installer calls made from it included
InLoop(rec) ==
  \/ rec.pc \in {"validate", "build"} \cup InRepair
  \/ rec.pc \in InInstaller /\ rec.ret = "loop"

\* C28 (Spec): inside the repair loop the attempt index never decreases and
\* is never reset: each step leaves it alone or adds one, the loop continues
\* at the next index after the installer call that follows a repair, and a
\* validation pass or compile run at index 0 has no Generator call before it.
C28_AttemptMonotone ==
  /\ [][\A i \in Slots :
          LET a == inv[i]
              b == inv'[i]
          IN  /\ (InLoop(a) /\ (InLoop(b) \/ Returned(b)))
                   => b.attempt \in {a.attempt, a.attempt + 1}
              /\ (a.pc \in InInstaller /\ a.ret = "loop" /\ b.pc = "validate")
                   => b.attempt = a.attempt + 1
              /\ (a.pc \in InInstaller /\ a.ret = "initial" /\ b.pc = "validate")
                   => b.attempt = 0 /\ b.genCalls = 0]_vars
  /\ [](\A i \in Slots :
          /\ (inv[i].pc \in {"validate", "build"} /\ inv[i].attempt = 0)
               => inv[i].genCalls = 0
          /\ (inv[i].pc \in {"validate", "build"})
               => inv[i].attempt >= inv[i].genCalls)

C28_Witness ==
  \E i \in Slots : /\ inv[i].pc = "build"
                   /\ inv[i].attempt = MAX_REPAIR_ATTEMPTS
                   /\ inv[i].genCalls = MAX_REPAIR_ATTEMPTS
                   /\ inv[i].iters = MAX_REPAIR_ATTEMPTS + 1

\* the two rule classes, as the validators' matchers decide them on one file
SourceExts == {"ts", "tsx", "js", "jsx", "mdx"}

HasBadImport(f) == f.ext \in SourceExts /\ \E s \in f.imports : isBad(s)

UsesNext(f) ==
  /\ f.ext \in SourceExts \cup {"html"}
  /\ \E s \in f.imports : StartsWith(s, NextBare \o << "/" >>) \/ s = NextBare

OutsideExcluded(f) == ~Under(f, {"node_modules", ".next", "dist"})

UnderSrc(f) == Len(f.path) > 0 /\ f.path[1] = "src"

FrameworkViolation(files) ==
  \/ DirExists(files, "pages")
  \/ DirExists(files, "app")
  \/ \E f \in files : OutsideExcluded(f) /\ UsesNext(f)

\* a validation pass that surfaced the import finding, or the framework one
ImportOutcome(rec) ==
  \/ rec.result \in {"import_terminal", "import_norepair"}
  \/ rec.pc = "generating" /\ rec.enforce

FrameworkOutcome(rec) ==
  \/ rec.result \in {"nextjs_terminal", "nextjs_norepair"}
  \/ rec.pc = "generating" /\ ~rec.enforce

\* C29 as stated (Spec): a validation pass surfaces one finding whenever a
\* source file outside node_modules and the build-output directories
\* violates a rule, so the compile run starts only on a tree in which no
\* such file violates a rule.
C29_CompileOnlyWithoutViolation ==
  \A i \in Slots :
    inv[i].pc = "build" =>
      /\ ~FrameworkViolation(Files)
      /\ \A f \in Files : OutsideExcluded(f) => ~HasBadImport(f)

\* C29 amended (Spec): a validation pass surfaces one finding, the import
\* finding before the framework one, whenever a file below src/ has a bad
\* import specifier or the framework rule is violated anywhere outside
\* node_modules and the build-output directories; the compile run starts
\* only on a tree without such a violation.  Files outside src/ are not
\* examined for their import specifiers.
C29_CompileOnlyWithoutScannedViolation ==
  /\ [](\A i \in Slots :
          inv[i].pc = "build" =>
            /\ ~FrameworkViolation(Files)
            /\ \A f \in Files :
                 (OutsideExcluded(f) /\ UnderSrc(f)) => ~HasBadImport(f))
  /\ [][\A i \in Slots :
          (inv[i].pc = "validate" /\ inv'[i] # inv[i]) =>
            IF \E f \in Files : OutsideExcluded(f) /\ UnderSrc(f) /\ HasBadImport(f)
            THEN ImportOutcome(inv'[i]) /\ ~FrameworkOutcome(inv'[i])
            ELSE IF FrameworkViolation(Files)
            THEN FrameworkOutcome(inv'[i]) /\ ~ImportOutcome(inv'[i])
            ELSE inv'[i].pc = "build"]_vars

C29_Witness ==
  \E i \in Slots : /\ inv[i].pc = "build"
                   /\ tree = "good"
                   /\ inv[i].genCalls = 1
                   /\ ViteConfig \in Files
                   /\ HasBadImport(ViteConfig)

\* the status of the most recent probe (NullStatus before the first one and
\* for a probe without a response)
LastStatus(w) == IF w = << >> THEN NullStatus ELSE w[Len(w)]

\* C30 (SpecProbe): a probe answered with a status in [200, 500) is the last
\* probe of the invocation, which returns the success result at once; a
\* probe answered with a status below 200 or above 500 leaves the ready flag
\* as it was and the consecutive-500 counter at 0.
C30_ReadyEndsPolling ==
  [][\A i \in handlers :
       LET a == inv[i]
           b == inv'[i]
           s == LastStatus(b.window)
       IN  /\ (a.pc = "probing" /\ b # a /\ b.streamSeen = a.streamSeen) =>
                /\ (s >= 200 /\ s < 500) =>
                     /\ b.pc = "finally"
                     /\ b.result = "success"
                     /\ b.i = a.i
                /\ ((s >= 0 /\ s < 200) \/ s > 500) =>
                     /\ b.serverReady = a.serverReady
                     /\ ~b.probeOk
                     /\ b.consecutive500Errors = 0
                     /\ b.result \notin {"success", "runtime500"} \/ a.serverReady
           /\ Returned(a) => (b.window = a.window /\ b.i = a.i)]_vars

C30_Witness ==
  \E i \in handlers :
    LET w == inv[i].window
    IN  /\ inv[i].result = "success"
        /\ inv[i].probeOk
        /\ ~inv[i].streamSeen
        /\ Len(w) = 3
        /\ w = << 500, 503, 499 >>
        /\ inv[i].i = 2

\* C31 (SpecProbe): an invocation sends at most MAX_PROBES probes; probing
\* ends with exactly one of the success, Timeout and RuntimeFailure results;
\* Timeout is returned only after all MAX_PROBES probes have been sent.
C31_ProbeCeiling ==
  \A i \in handlers :
    /\ inv[i].sent <= MAX_PROBES
    /\ inv[i].pc = "probing" => inv[i].result = "none"
    /\ Returned(inv[i]) =>
         /\ inv[i].result \in {"success", "timeout", "runtime500"}
         /\ inv[i].sent >= 1
    /\ inv[i].result = "timeout" => inv[i].sent = MAX_PROBES

C31_Witness ==
  \E i \in handlers : /\ inv[i].pc = "done"
                      /\ inv[i].result = "timeout"
                      /\ inv[i].sent = MAX_PROBES
                      /\ ~inv[i].serverReady
                      /\ LastStatus(inv[i].window) = 503

\* the step of invocation i is the exit of its dev server
ExitStep(i) == inv[i].server = "running" /\ inv'[i].server = "exited"

\* the exit of the dev server is only noted: the invocation stays in the
\* probe loop with every local as it was
ExitOnlyLogged ==
  [][\A i \in handlers :
       ExitStep(i) =>
         /\ inv'[i].pc = "probing"
         /\ inv'[i].result = "none"
         /\ inv'[i].i = inv[i].i
         /\ inv'[i].serverReady = inv[i].serverReady
         /\ inv'[i].consecutive500Errors = inv[i].consecutive500Errors
         /\ UNCHANGED fsVars]_vars

\* C32 as stated (SpecServe): an exit of the dev server before readiness
\* does not end the invocation; probing continues and the later probes
\* decide: RuntimeFailure on five consecutive 500s, success on a ready
\* probe, Timeout after MAX_PROBES probes when none was ready.
C32_ExitLeavesOutcomeToProbes ==
  /\ ExitOnlyLogged
  /\ [](\A i \in handlers :
          (inv[i].exitedEarly /\ Returned(inv[i]) /\ ~inv[i].probeOk
             /\ inv[i].result # "runtime500")
            => (inv[i].result = "timeout" /\ inv[i].sent = MAX_PROBES))

\* C32 amended (SpecServe): the same, with Timeout after MAX_PROBES probes
\* when no probe was ready and no ready marker arrived on the output of the
\* dev server after its exit.
C32_ExitLeavesOutcomeToReadySignals ==
  /\ ExitOnlyLogged
  /\ [](\A i \in handlers :
          (inv[i].exitedEarly /\ Returned(inv[i]) /\ ~inv[i].probeOk
             /\ ~inv[i].streamSeen /\ inv[i].result # "runtime500")
            => (inv[i].result = "timeout" /\ inv[i].sent = MAX_PROBES))
  /\ [](\A i \in handlers :
          (inv[i].exitedEarly /\ inv[i].result = "success")
            => (inv[i].probeOk \/ inv[i].streamSeen))

C32_Witness ==
  \E i \in handlers : /\ inv[i].exitedEarly
                      /\ inv[i].server = "exited"
                      /\ inv[i].pc = "done"
                      /\ inv[i].result = "timeout"
                      /\ inv[i].sent = MAX_PROBES

\* C33 (SpecServe): the invocation never terminates the dev server it
\* launched: the server stops running only by exiting or failing on its own
\* while the invocation is still probing, no step that returns a result or
\* releases the lock changes its state, and it is never killed.
C33_ServerOutlivesInvocation ==
  /\ [](\A i \in handlers : inv[i].server # "killed")
  /\ [][\A i \in handlers :
         /\ (inv[i].server = "running" /\ inv'[i].server # "running")
              => /\ inv'[i].server \in {"exited", "failed"}
                 /\ inv[i].pc = "probing"
                 /\ ~Returned(inv'[i])
         /\ (Returned(inv'[i]) /\ inv[i].server = "running")
              => inv'[i].server = "running"]_vars

C33_Witness ==
  \E i \in handlers : /\ inv[i].pc = "done"
                      /\ inv[i].launched
                      /\ inv[i].result = "runtime500"
                      /\ inv[i].server = "running"
                      /\ ~lockFile

\* the processes the cleanup of this platform aims at that are still alive
Targets == Killed(platform, procs)

\* C34 (SpecPort): however the port cleanup ends (nothing to kill, a
\* listener killed, the lookup or the kill failing), the step takes the
\* invocation to the launch stage with no result set, and the launch
\* follows from there.
C34_ReclaimBestEffort ==
  /\ [][\A i \in handlers :
         inv[i].pc = "reclaim" =>
           /\ inv'[i].pc = "launch"
           /\ inv'[i].result = "none"
           /\ inv'[i].reclaim \in ReclaimOutcomes]_vars
  /\ [](\A i \in handlers :
          inv[i].pc \in {"reclaim", "launch", "probing"} /\ inv[i].result = "none")

C34_Witness ==
  \E i \in handlers : /\ inv[i].pc = "launch"
                      /\ inv[i].reclaim = "killFailed"
                      /\ inv[i].result = "none"
                      /\ Targets # {}

\* C35 (Spec): an invocation that finds the target directory missing returns
\* the 'Generated app directory not found' (404) result, having run no
\* install, compile or launch step.
C35_MissingDirNotFound ==
  \A i \in Slots :
    (Returned(inv[i]) /\ ~inv[i].dirAtOpen)
      => /\ inv[i].result = "notfound"
         /\ Response(inv[i].result).status = 404
         /\ inv[i].iters = 0
         /\ ~inv[i].launched

\* C36 (SpecConc): every run of the build command comes after a removal of
\* the build output by the same invocation, and it starts with no build
\* output in the directory.
C36_BuildStartsWithoutOutput ==
  [][\A i \in handlers :
       (inv[i].pc = "build" /\ inv[i].cleared /\ inv'[i] # inv[i]) => ~dist]_vars

\* the order of the steps of one pass: generate, write, install, start
CliOrder ==
  { << "generate", "write" >>, << "write", "install" >>, << "install", "dev" >>,
    << "dev", "starting" >>, << "starting", "opening" >>,
    << "starting", "stalled" >>, << "opening", "serving" >> }

\* C37 (SpecRunner): the runner makes at most one generator call with an
\* error context.  The first failure of generation, file writing, install
\* or server start in main leads to handleError, which calls the generator
\* once and then writes, installs and starts the server in that order; a
\* failure of any step of that fix path ends the process with code 1, and
\* no generator call follows it.
C37_AtMostOneFix ==
  /\ [](cli.fixCalls <= 1 /\ cli.calls <= 2)
  /\ [](cli.phase = "fix" => cli.failedAt # "none")
  /\ []((cli.phase = "fix" /\ cli.pc # "generate") => cli.fixCalls = 1)
  /\ [](cli.fixFailedAt # "none" =>
          /\ cli.pc = "exited"
          /\ cli.exitCode = 1
          /\ cli.fixCalls = 1)
  /\ [][/\ (cli.pc # "reread" /\ cli'.pc = "reread") =>
             /\ cli.phase = "main"
             /\ cli.pc \in {"generate", "write", "install", "starting"}
             /\ cli'.failedAt # "none"
        /\ (cli.pc = "reread" /\ cli'.pc # "reread") =>
             /\ cli'.pc = "generate"
             /\ cli'.phase = "fix"
             /\ cli'.fixCalls = 0
        /\ (cli.phase = "fix" /\ cli'.pc # cli.pc) =>
             \/ << cli.pc, cli'.pc >> \in CliOrder
             \/ /\ cli'.pc = "exited"
                /\ cli'.fixFailedAt # "none" <=> cli.pc # "stalled"
                /\ cli'.exitCode = IF cli.pc = "stalled" THEN 0 ELSE 1
        /\ cli'.fixCalls = cli.fixCalls + 1 =>
             /\ cli.pc = "generate"
             /\ cli.phase = "fix"
             /\ cli.fixCalls = 0]_vars

C37_Witness ==
  /\ cli.pc = "exited"
  /\ cli.exitCode = 1
  /\ cli.failedAt = "install"
  /\ cli.fixFailedAt = "timeout"
  /\ cli.fixCalls = 1
  /\ cli.calls = 2

\* C38 (SpecRunner): at most one dev server spawned by the runner is alive
\* at any time.
C38_OneDevServerAlive ==
  Cardinality({ k \in CliChildren : cli.child[k] = "running" }) <= 1

InProgress == {"uploading", "extracting", "generating", "building"}

\* the status changes of one run, the start of a run, the failure of a run
UiChain ==
  { << "idle", "uploading" >>, << "uploading", "extracting" >>,
    << "extracting", "generating" >>, << "generating", "building" >>,
    << "building", "success" >> }
UiRestart == { << "success", "uploading" >>, << "error", "uploading" >> }
UiFailure == { << st, "error" >> : st \in InProgress }

\* the runs of handleImageUpload that have not returned
RunsInProgress == { r \in 1..MaxUploads : ui.run[r] \notin {"none", "ended"} }

=============================================================================
